---- MODULE Spec2Model ----
(***************************************************************************)
(* Model of the vox media engine: the wire framing of media datagrams      *)
(* (crates/vox-media/src/quic.rs), the video fragmenter and reassembler,   *)
(* and the session supervisor run_media_loop (crates/vox-media/src/        *)
(* state.rs) together with the host handle that feeds it (lib.rs).         *)
(*                                                                         *)
(* The specifications of the module:                                       *)
(*   Spec       the supervisor, the host thread and the transport          *)
(*   SpecSeq    the supervisor on longer runs of a host that only connects *)
(*              and switches video, to follow the sequence counters        *)
(*   SpecVideo  send_video_fragmented and VideoReassembler driven on       *)
(*              inputs drawn from bounded sets                             *)
(*   SpecMedia  the supervisor with inbound datagrams and a clock: the     *)
(*              per-user decoders, the reassembler and the playback path   *)
(*   SpecSpeaking  update_speaking_state and the muted capture arm on a    *)
(*              millisecond clock                                          *)
(*   SpecHeader MediaHeader::encode and MediaHeader::parse                 *)
(*   SpecQueue  push_video_frame and poll_video_frame                      *)
(*   SpecRestart    the supervisor with a host that stops the runtime and  *)
(*              starts it again on the same queues                         *)
(*   SpecCamera the camera worker threads (video.rs), their stop flags and *)
(*              the 4-frame channel to the supervisor                      *)
(*   SpecPlayback   the playback device callback (audio.rs) and its FIFO   *)
(*                                                                         *)
(* and of the vox MLS engine (crates/vox-mls/src/lib.rs, group.rs,         *)
(* identity.rs) over its SQLite provider (provider.rs):                    *)
(*   SpecMls    three engines creating identities, key packages and        *)
(*              groups, and exporting and importing their state            *)
(*   SpecRoundTrip  two engines sharing one group and exchanging           *)
(*              application messages                                       *)
(*   SpecProvider   VoxProvider opened with and without an encryption key, *)
(*              saving and loading the identity row                        *)
(*   SpecProcess    two engines and a network delivering commits,          *)
(*              proposals and junk to process_message and decrypt          *)
(***************************************************************************)
EXTENDS Integers, Sequences, FiniteSets, TLC

VARIABLES
    \* ---- supervisor (state.rs run_media_loop) ----
    pc,                   \* where the supervisor task is suspended
    session,              \* Option<ActiveSession>
    last_connect_params,  \* Option<ConnectParams>
    connecting,           \* params of the Connect being established
    attempt,              \* loop variable of reconnect_with_backoff
    delay_secs,           \* duration handed to tokio::time::sleep
    \* ---- host handle (lib.rs VoxMediaClient) ----
    cmd_rx,               \* the unbounded command channel
    cmd_tx,               \* TRUE while the host holds the sender
    cancel,               \* the CancellationToken
    events,               \* every event pushed to the EventQueue, in order
    video_frames,         \* the host-visible VideoFrameQueue
    \* ---- environment ----
    wire,                 \* datagrams handed to the most recent connection
    out_log,              \* media datagrams handed to any connection, in order
    live,                 \* how many of each resource are alive
    \* ---- bookkeeping of the run ----
    op,                   \* the step the supervisor took last
    n_in,                 \* inputs the environment has supplied so far
    \* ---- fragmenter / reassembler harness (SpecVideo) ----
    vf_in,                \* the arguments of send_video_fragmented
    vf_out,               \* the datagrams it handed to the connection
    vf_seq,               \* the caller's sequence counter (*start_seq)
    vf_result,            \* "idle", "ok" or "err"
    ra_pending,           \* VideoReassembler.pending
    ra_fed,               \* indices of vf_out fed to add_fragment so far
    ra_returned,          \* what each add_fragment call returned, in order
    ra_evicted,           \* the fragments evict_stale has removed so far
    now,                  \* monotonic clock, in seconds
    \* ---- header codec harness (SpecHeader) ----
    hdr_in,               \* the MediaHeader handed to encode
    hdr_bytes,            \* what encode returned (empty before the call)
    hdr_out,              \* what parse returned, wrapped (empty before the call)
    \* ---- video queue harness (SpecQueue) ----
    vq_pushed,            \* frames pushed so far
    vq_polled,            \* what poll_video_frame returned, in order
    \* ---- speaking detection harness (SpecSpeaking) ----
    sp_states,            \* speaking_states with their last_above_threshold
    sp_now,               \* monotonic clock, in milliseconds
    sp_log,               \* time and kind of every buffer and event, in order
    \* ---- inbound datagrams (SpecMedia) ----
    rx_last,              \* what read_datagram returned last, wrapped
    \* ---- MLS engines (vox-mls lib.rs) ----
    engines,              \* Option<MlsEngine> of every host
    stores,               \* the database at each engine's db_path
    mls_ret,              \* what the last call returned
    published,            \* the key packages uploaded so far
    welcomes,             \* the welcomes passed on so far
    inbox,                \* the group messages waiting at each host, in order
    exports,              \* what export_state and export_identity returned
    mls_ops,              \* calls made so far
    \* ---- provider harness (SpecProvider) ----
    pv,                   \* the VoxProvider
    pv_db,                \* the database file it opens
    pv_saved,             \* the key pair last handed to save_identity, wrapped
    pv_ret,               \* what load_identity returned last, wrapped
    \* ---- camera worker harness (SpecCamera) ----
    cam_session,          \* the ActiveSession whose video is switched
    cam_workers,          \* every camera thread spawned so far, in order
    cam_chan,             \* the frames queued in the session's camera channel
    cam_received,         \* the frames the supervisor took from camera_rx, in order
    cam_dropped,          \* the frames try_send refused, with the reason
    cam_captured,         \* the frames each worker captured, in order
    \* ---- playback callback harness (SpecPlayback) ----
    pb_channels,          \* device_channels of the negotiated config
    pb_rx,                \* the frames waiting in the playback channel, in order
    pb_buf,               \* playback_buffer, as runs of equal samples
    pb_out,               \* what the last callback wrote to the device, as runs
    pb_calls,             \* callbacks and sends so far
    \* ---- the host's object (lib.rs VoxMediaClient) ----
    client                \* its fields muted, deafened and video

svars == <<pc, session, last_connect_params, connecting, attempt, delay_secs,
           cmd_rx, cmd_tx, cancel, events, video_frames, wire, live, op,
           n_in, out_log>>
hvars == <<hdr_in, hdr_bytes, hdr_out>>
qvars == <<vq_pushed, vq_polled>>
pvars == <<sp_states, sp_now, sp_log>>
mvars == <<rx_last>>
evars == <<engines, stores, mls_ret, published, welcomes, inbox, exports, mls_ops>>
kvars == <<pv, pv_db, pv_saved, pv_ret>>
cvars == <<cam_session, cam_workers, cam_chan, cam_received, cam_dropped, cam_captured>>
avars == <<pb_channels, pb_rx, pb_buf, pb_out, pb_calls>>
lvars == <<client>>
xvars == <<hvars, qvars, pvars, mvars, evars, kvars, cvars, avars, lvars>>
vvars == <<vf_in, vf_out, vf_seq, vf_result, ra_pending, ra_fed, ra_returned, ra_evicted, now, xvars>>
vars == <<svars, vvars>>

(***************************************************************************)
(* Bounds of the model                                                     *)
(***************************************************************************)
\* inputs per run: host commands, QUIC read errors, captured PCM and camera frames
MaxInputs == 3
MaxTime == 3
\* frames pushed onto the video queue in SpecQueue
MaxPushes == 12

\* inputs the environment supplies in one run of SpecSeq
MaxSeqInputs == 6

\* inputs the environment supplies in one run of SpecMedia
MaxMediaInputs == 4
\* how far the clock of SpecMedia runs, in seconds
MaxMediaTime == 12
\* PCM buffers handled in one run of SpecSpeaking
MaxSpBuffers == 4
\* times the provider of SpecProvider is opened again
MaxOpens == 3
\* calls the hosts make in one run of SpecMls
MaxMlsOps == 5
\* calls the hosts make in one run of SpecRoundTrip
MaxRoundTripOps == 9
\* calls the hosts make in one run of SpecProcess
MaxProcessOps == 9
\* camera threads spawned in one run of SpecCamera
MaxCamWorkers == 2
\* frames the camera threads capture in one run of SpecCamera
MaxCamFrames == 5
\* sends and callbacks in one run of SpecPlayback
MaxPbSteps == 5

(***************************************************************************)
(* Program constants                                                       *)
(***************************************************************************)
MAX_RECONNECT_ATTEMPTS == 5
MAX_BACKOFF_SECS == 30
REASSEMBLY_STALE_TIMEOUT == 2
DECODER_IDLE_TIMEOUT == 10
\* SPEAKING_HOLDOFF, in milliseconds
SPEAKING_HOLDOFF == 200
HEADER_SIZE == 22
MEDIA_TYPE_AUDIO == 0
MEDIA_TYPE_VIDEO == 1
CODEC_OPUS == 1
CODEC_AV1 == 2
FLAG_KEYFRAME == 128
FLAG_END_OF_FRAME == 64
PROTOCOL_VERSION == 1
MAX_FRAGMENT_PAYLOAD == 1178
AUDIO_FRAME_SAMPLES == 960
VIDEO_QUEUE_CAP == 8
W16 == 65536

(***************************************************************************)
(* Option<T>: None is the empty sequence, Some(x) the one-element one.     *)
(***************************************************************************)
None == << >>
Some(x) == <<x>>
IsSome(o) == o # << >>
Unwrap(o) == o[1]

Min(a, b) == IF a < b THEN a ELSE b
Max(a, b) == IF a > b THEN a ELSE b

RECURSIVE Pow2(_)
Pow2(n) == IF n = 0 THEN 1 ELSE 2 * Pow2(n - 1)

(***************************************************************************)
(* u32: a pair << high 16 bits, low 16 bits >>, so that the full range of  *)
(* the type and its wrap-around at 2^32 are representable.                 *)
(***************************************************************************)
U32Of(n) == << (n \div W16) % W16, n % W16 >>
U32Max == << W16 - 1, W16 - 1 >>

\* u32::wrapping_add(k) for a small k
WrappingAdd(x, k) ==
    LET lo == x[2] + k
    IN  << (x[1] + lo \div W16) % W16, lo % W16 >>

\* the order of u32 values
U32Leq(x, y) == x[1] < y[1] \/ (x[1] = y[1] /\ x[2] <= y[2])

(***************************************************************************)
(* Wire framing: MediaHeader, OutFrame, InFrame (quic.rs)                  *)
(***************************************************************************)
\* u32::to_be_bytes
BE32(x) == << x[1] \div 256, x[1] % 256, x[2] \div 256, x[2] % 256 >>

\* u32::from_be_bytes
FromBE32(b1, b2, b3, b4) == << b1 * 256 + b2, b3 * 256 + b4 >>

\* variant: the dtx flag written to the low bit of byte 21
HeaderEncodeDtxLowBit(h) ==
    << h.version, h.media_type, h.codec_id, h.flags >>
    \o BE32(h.room_id) \o BE32(h.user_id) \o BE32(h.sequence) \o BE32(h.timestamp)
    \o << ((h.spatial_id * 16) % 256) + (h.temporal_id % 16) >>
    \o << IF h.dtx THEN 1 ELSE 0 >>

\* MediaHeader::encode
HeaderEncode(h) ==
    << h.version, h.media_type, h.codec_id, h.flags >>
    \o BE32(h.room_id) \o BE32(h.user_id) \o BE32(h.sequence) \o BE32(h.timestamp)
    \o << ((h.spatial_id * 16) % 256) + (h.temporal_id % 16) >>
    \o << IF h.dtx THEN 128 ELSE 0 >>

\* MediaHeader::parse
HeaderParse(data) ==
    IF Len(data) < HEADER_SIZE THEN None
    ELSE Some([ version     |-> data[1],
                media_type  |-> data[2],
                codec_id    |-> data[3],
                flags       |-> data[4],
                room_id     |-> FromBE32(data[5], data[6], data[7], data[8]),
                user_id     |-> FromBE32(data[9], data[10], data[11], data[12]),
                sequence    |-> FromBE32(data[13], data[14], data[15], data[16]),
                timestamp   |-> FromBE32(data[17], data[18], data[19], data[20]),
                spatial_id  |-> data[21] \div 16,
                temporal_id |-> data[21] % 16,
                dtx         |-> (data[22] \div 128) % 2 = 1 ])

\* MediaHeader::is_keyframe
IsKeyframe(h) == (h.flags \div FLAG_KEYFRAME) % 2 = 1

\* MediaHeader::is_end_of_frame
IsEndOfFrame(h) == (h.flags \div FLAG_END_OF_FRAME) % 2 = 1

\* variant: an audio header whose version byte is left at zero
OutFrameAudioNoVersion(room_id, user_id, codec_id, seq, timestamp, payload) ==
    [ header |-> [ version |-> 0, media_type |-> MEDIA_TYPE_AUDIO,
                   codec_id |-> codec_id, flags |-> FLAG_END_OF_FRAME,
                   room_id |-> room_id, user_id |-> user_id, sequence |-> seq,
                   timestamp |-> timestamp, spatial_id |-> 0, temporal_id |-> 0,
                   dtx |-> FALSE ],
      payload |-> payload ]

\* OutFrame::audio
OutFrameAudio(room_id, user_id, codec_id, seq, timestamp, payload) ==
    [ header |-> [ version |-> PROTOCOL_VERSION, media_type |-> MEDIA_TYPE_AUDIO,
                   codec_id |-> codec_id, flags |-> FLAG_END_OF_FRAME,
                   room_id |-> room_id, user_id |-> user_id, sequence |-> seq,
                   timestamp |-> timestamp, spatial_id |-> 0, temporal_id |-> 0,
                   dtx |-> FALSE ],
      payload |-> payload ]

\* OutFrame::video
OutFrameVideo(room_id, user_id, seq, timestamp, is_keyframe, is_end_of_frame, payload) ==
    [ header |-> [ version |-> PROTOCOL_VERSION, media_type |-> MEDIA_TYPE_VIDEO,
                   codec_id |-> CODEC_AV1,
                   flags |-> (IF is_keyframe THEN FLAG_KEYFRAME ELSE 0)
                             + (IF is_end_of_frame THEN FLAG_END_OF_FRAME ELSE 0),
                   room_id |-> room_id, user_id |-> user_id, sequence |-> seq,
                   timestamp |-> timestamp, spatial_id |-> 0, temporal_id |-> 0,
                   dtx |-> FALSE ],
      payload |-> payload ]

\* OutFrame::encode
OutFrameEncode(f) == HeaderEncode(f.header) \o f.payload

\* InFrame::decode
InFrameDecode(data) ==
    LET h == HeaderParse(data)
    IN  IF h = None THEN None
        ELSE Some([ header |-> Unwrap(h),
                    payload |-> SubSeq(data, HEADER_SIZE + 1, Len(data)) ])

(***************************************************************************)
(* Video fragmentation (quic.rs send_video_fragmented)                     *)
(***************************************************************************)
\* variant: data.chunks(..) alone, which yields no chunk for empty data
ChunksOfNonEmptyOnly(data) ==
    [ i \in 1..((Len(data) + MAX_FRAGMENT_PAYLOAD - 1) \div MAX_FRAGMENT_PAYLOAD) |->
        SubSeq(data, (i - 1) * MAX_FRAGMENT_PAYLOAD + 1,
               Min(i * MAX_FRAGMENT_PAYLOAD, Len(data))) ]

\* data.chunks(MAX_FRAGMENT_PAYLOAD), or one empty chunk for empty data
Chunks(data) ==
    IF Len(data) = 0 THEN << << >> >>
    ELSE [ i \in 1..((Len(data) + MAX_FRAGMENT_PAYLOAD - 1) \div MAX_FRAGMENT_PAYLOAD) |->
             SubSeq(data, (i - 1) * MAX_FRAGMENT_PAYLOAD + 1,
                    Min(i * MAX_FRAGMENT_PAYLOAD, Len(data))) ]

\* the sequence number after one fragment was sent
NextFragSeq(seq) == WrappingAdd(seq, 1)

\* The for loop of send_video_fragmented from chunk i on. failAt is the
\* 1-based index of the send_datagram call that returns an error, 0 for none.
RECURSIVE FragLoop(_, _, _, _, _, _, _, _, _)
FragLoop(chunks, i, room_id, user_id, seq, timestamp, is_keyframe, failAt, sent) ==
    IF i > Len(chunks) THEN [ ok |-> TRUE, seq |-> seq, sent |-> sent ]
    ELSE LET is_last == (i = Len(chunks))
             frame == OutFrameVideo(room_id, user_id, seq, timestamp,
                                    is_keyframe /\ i = 1, is_last, chunks[i])
         IN  IF failAt = i THEN [ ok |-> FALSE, seq |-> seq, sent |-> sent ]
             ELSE FragLoop(chunks, i + 1, room_id, user_id, NextFragSeq(seq),
                           timestamp, is_keyframe, failAt,
                           Append(sent, OutFrameEncode(frame)))

\* send_video_fragmented: the datagrams sent, the advanced *start_seq, Ok/Err
SendVideoFragmented(room_id, user_id, start_seq, timestamp, is_keyframe, data, failAt) ==
    FragLoop(Chunks(data), 1, room_id, user_id, start_seq, timestamp,
             is_keyframe, failAt, << >>)

(***************************************************************************)
(* Video reassembly (quic.rs VideoReassembler)                             *)
(***************************************************************************)
\* Vec::sort_by_key(|(seq, _)| *seq): a stable sort, ascending by sequence
RECURSIVE InsertBySeq(_, _)
InsertBySeq(sorted, x) ==
    IF sorted = << >> THEN << x >>
    ELSE IF U32Leq(sorted[Len(sorted)][1], x[1]) THEN Append(sorted, x)
    ELSE Append(InsertBySeq(SubSeq(sorted, 1, Len(sorted) - 1), x), sorted[Len(sorted)])

RECURSIVE SortBySeq(_)
SortBySeq(frags) ==
    IF frags = << >> THEN << >>
    ELSE InsertBySeq(SortBySeq(SubSeq(frags, 1, Len(frags) - 1)), frags[Len(frags)])

\* into_iter().flat_map(|(_, d)| d).collect()
RECURSIVE FlatPayloads(_)
FlatPayloads(frags) ==
    IF frags = << >> THEN << >>
    ELSE frags[1][2] \o FlatPayloads(Tail(frags))

ReassemblyKey(header) == << header.user_id, header.timestamp >>

\* whether add_fragment completes the entry in this call
Completes(partial) == partial.received_end

\* VideoReassembler::add_fragment: the new pending map and the returned Option
AddFragment(pending, header, payload, t) ==
    LET key == ReassemblyKey(header)
        old == IF key \in DOMAIN pending THEN pending[key]
               ELSE [ fragments |-> << >>, is_keyframe |-> FALSE,
                      received_end |-> FALSE, last_activity |-> t ]
        partial == [ fragments |-> Append(old.fragments, << header.sequence, payload >>),
                     is_keyframe |-> old.is_keyframe \/ IsKeyframe(header),
                     received_end |-> old.received_end \/ IsEndOfFrame(header),
                     last_activity |-> t ]
    IN  IF Completes(partial)
        THEN [ pending |-> [ k \in DOMAIN pending \ {key} |-> pending[k] ],
               frame |-> Some([ user_id |-> key[1], timestamp |-> key[2],
                                is_keyframe |-> partial.is_keyframe,
                                data |-> FlatPayloads(SortBySeq(partial.fragments)) ]) ]
        ELSE [ pending |-> [ k \in DOMAIN pending \cup {key} |->
                               IF k = key THEN partial ELSE pending[k] ],
               frame |-> None ]

\* variant: an entry is dropped once half of max_age has passed
EvictStaleEarly(pending, max_age, t) ==
    [ k \in { q \in DOMAIN pending : 2 * (t - pending[q].last_activity) < max_age } |->
        pending[k] ]

\* VideoReassembler::evict_stale
EvictStale(pending, max_age, t) ==
    [ k \in { q \in DOMAIN pending : t - pending[q].last_activity < max_age } |-> pending[k] ]


(***************************************************************************)
(* Host-visible queues (lib.rs)                                            *)
(***************************************************************************)
\* MediaEvent, one record shape for every variant
Ev(type, reason, a, d, u) ==
    [ type |-> type, reason |-> reason, attempt |-> a, delay_secs |-> d, user_id |-> u ]
EvConnected == Ev("Connected", "", 0, 0, U32Of(0))
EvDisconnected(reason) == Ev("Disconnected", reason, 0, 0, U32Of(0))
EvConnectFailed(reason) == Ev("ConnectFailed", reason, 0, 0, U32Of(0))
EvReconnecting(a, d) == Ev("Reconnecting", "", a, d, U32Of(0))
EvVideoError(msg) == Ev("VideoError", msg, 0, 0, U32Of(0))
EvSpeakingStart(u) == Ev("SpeakingStart", "", 0, 0, u)
EvSpeakingStop(u) == Ev("SpeakingStop", "", 0, 0, u)

\* push_event
PushEvent(queue, event) == Append(queue, event)

\* variant: the length test lets the queue grow to nine before dropping
PushVideoFrameLateDrop(queue, frame) ==
    IF Len(queue) > VIDEO_QUEUE_CAP THEN Append(Tail(queue), frame)
    ELSE Append(queue, frame)

\* push_video_frame: bounded to 8 frames, drops the oldest
PushVideoFrame(queue, frame) ==
    IF Len(queue) >= VIDEO_QUEUE_CAP THEN Append(Tail(queue), frame)
    ELSE Append(queue, frame)

\* MediaCommand, one record shape for every variant modelled
NoParams == [ token |-> << >>, room_id |-> U32Of(0), user_id |-> U32Of(0) ]
Cmd(type, params, flag) == [ type |-> type, params |-> params, flag |-> flag ]
CmdConnect(p) == Cmd("Connect", p, FALSE)
CmdDisconnect == Cmd("Disconnect", NoParams, FALSE)
CmdSetMute(b) == Cmd("SetMute", NoParams, b)
CmdSetVideo(b) == Cmd("SetVideo", NoParams, b)
CmdSetDeaf(b) == Cmd("SetDeaf", NoParams, b)

\* The Connect parameters the host may pass: token bytes, room id, user id.
ParamSet ==
    { [ token |-> << 101, 121 >>, room_id |-> U32Of(7), user_id |-> U32Of(1) ],
      [ token |-> << 116 >>,      room_id |-> U32Of(7), user_id |-> U32Of(2) ] }

(***************************************************************************)
(* Resources: what is alive outside the supervisor's own variables         *)
(***************************************************************************)
Resources ==
    { "connection", "capture_stream", "playback_stream", "opus_encoder",
      "camera_rx", "camera_stop", "av1_encoder" }

NoneAlive == [ r \in Resources |-> 0 ]
Acquire(l, rs) == [ r \in Resources |-> l[r] + (IF r \in rs THEN 1 ELSE 0) ]
Release(l, rs) == [ r \in Resources |-> l[r] - (IF r \in rs THEN 1 ELSE 0) ]

\* what an ActiveSession owns, and releases when it is dropped
SessionResources(s) ==
    { "connection", "capture_stream", "playback_stream", "opus_encoder" }
    \cup (IF s.camera_rx THEN { "camera_rx" } ELSE {})
    \cup (IF s.camera_stop THEN { "camera_stop" } ELSE {})
    \cup (IF s.video_encoder THEN { "av1_encoder" } ELSE {})

\* `session = None` (or the loop's exit): the struct is dropped
DropSession(l, sess) ==
    IF IsSome(sess) THEN Release(l, SessionResources(Unwrap(sess))) ELSE l

(***************************************************************************)
(* establish_session (state.rs)                                            *)
(***************************************************************************)
EstablishSteps == << "resolve", "handshake", "token", "capture", "playback", "encoder" >>
FailSteps == { EstablishSteps[i] : i \in 1..Len(EstablishSteps) }

StepIndex(step) == CHOOSE i \in 1..Len(EstablishSteps) : EstablishSteps[i] = step

\* the steps that ran to completion when `fail` is the step that failed
Completed(fail) ==
    IF fail = "none" THEN FailSteps
    ELSE { EstablishSteps[i] : i \in 1..(StepIndex(fail) - 1) }

\* the local each completed step leaves in scope
StepLocals(done) ==
    (IF "handshake" \in done THEN { "connection" } ELSE {})
    \cup (IF "capture" \in done THEN { "capture_stream" } ELSE {})
    \cup (IF "playback" \in done THEN { "playback_stream" } ELSE {})
    \cup (IF "encoder" \in done THEN { "opus_encoder" } ELSE {})

\* variant: an error path that keeps the QUIC connection alive
LocalsAfterErrorLeakConnection(locals) == locals \cap { "connection" }

\* an early return by `?` drops every local in scope
LocalsAfterError(locals) == {}

\* variant: a session that never sends its token
EstablishDatagramsNoToken(p, done) == << >>

\* the datagrams establish_session hands to the new connection
EstablishDatagrams(p, done) == IF "token" \in done THEN << p.token >> ELSE << >>

\* the ActiveSession literal of establish_session
NewSession(p) ==
    [ room_id |-> p.room_id, user_id |-> p.user_id,
      sequence |-> U32Of(0), timestamp |-> U32Of(0), muted |-> FALSE,
      speaking_states |-> << >>,
      video |-> FALSE, video_sequence |-> U32Of(0), video_timestamp |-> U32Of(0),
      video_encoder |-> FALSE, camera_rx |-> FALSE, camera_stop |-> FALSE,
      \* whether the camera worker thread has the device open (video.rs camera_thread)
      camera_open |-> FALSE,
      deafened |-> FALSE,
      \* user_id -> [ born, last_used ]; born tells one decoder from its successor
      audio_decoders |-> << >>, video_decoders |-> << >>,
      \* VideoReassembler.pending
      video_reassembler |-> << >>,
      \* the sender of every buffer sent to playback_tx, in order
      playback |-> << >> ]

\* establish_session: Ok(session) or Err(step), the resources it leaves alive,
\* whether a connection was opened and what was sent on it
EstablishSession(p, fail) ==
    LET done == Completed(fail)
    IN  [ ok      |-> fail = "none",
          err     |-> fail,
          session |-> NewSession(p),
          opened  |-> "handshake" \in done,
          sent    |-> EstablishDatagrams(p, done),
          held    |-> IF fail = "none" THEN StepLocals(done)
                      ELSE LocalsAfterError(StepLocals(done)) ]

\* the log of the most recent connection after an establish_session call
WireAfter(w, res) == IF res.opened THEN res.sent ELSE w

(***************************************************************************)
(* reconnect_with_backoff (state.rs)                                       *)
(***************************************************************************)
\* variant: the exponent is the attempt number itself
BackoffDelayFromTwo(k) == Min(Pow2(k), MAX_BACKOFF_SECS)

\* delay_secs of one attempt
BackoffDelay(k) == Min(Pow2(k - 1), MAX_BACKOFF_SECS)

\* the event pushed after the last attempt failed
ReconnectGiveUpEvent == EvDisconnected("Reconnection failed after 5 attempts")

\* variant: the saved params survive giving up
ParamsAfterGiveUpKept == last_connect_params

\* run_media_loop: last_connect_params after reconnect_with_backoff returned None
ParamsAfterGiveUp == None

(***************************************************************************)
(* Speaking detection (state.rs update_speaking_state)                     *)
(***************************************************************************)
\* speaking_states is a map user_id -> speaking; an absent user is inserted
\* as not speaking. `above` is normalized_rms >= SPEAKING_THRESHOLD and
\* `held_off` is now - last_above_threshold >= SPEAKING_HOLDOFF.
IsSpeaking(states, u) == \E i \in 1..Len(states) : states[i].user_id = u /\ states[i].speaking

SetSpeaking(states, u, b) ==
    IF \E i \in 1..Len(states) : states[i].user_id = u
    THEN [ i \in 1..Len(states) |->
             IF states[i].user_id = u THEN [ user_id |-> u, speaking |-> b ] ELSE states[i] ]
    ELSE Append(states, [ user_id |-> u, speaking |-> b ])

\* variant: every buffer above the threshold announces the user
UpdateSpeakingStateEveryBuffer(states, evs, u, above, held_off) ==
    IF above
    THEN [ states |-> SetSpeaking(states, u, TRUE),
           events |-> PushEvent(evs, EvSpeakingStart(u)) ]
    ELSE IF IsSpeaking(states, u) /\ held_off
         THEN [ states |-> SetSpeaking(states, u, FALSE),
                events |-> PushEvent(evs, EvSpeakingStop(u)) ]
         ELSE [ states |-> SetSpeaking(states, u, IsSpeaking(states, u)), events |-> evs ]

\* update_speaking_state
UpdateSpeakingState(states, evs, u, above, held_off) ==
    IF above
    THEN IF ~IsSpeaking(states, u)
         THEN [ states |-> SetSpeaking(states, u, TRUE),
                events |-> PushEvent(evs, EvSpeakingStart(u)) ]
         ELSE [ states |-> SetSpeaking(states, u, TRUE), events |-> evs ]
    ELSE IF IsSpeaking(states, u) /\ held_off
         THEN [ states |-> SetSpeaking(states, u, FALSE),
                events |-> PushEvent(evs, EvSpeakingStop(u)) ]
         ELSE [ states |-> SetSpeaking(states, u, IsSpeaking(states, u)), events |-> evs ]


(***************************************************************************)
(* Outbound audio (state.rs send_audio_frame)                              *)
(***************************************************************************)
\* What OpusEncoder::encode may return for one frame: Err, or (data, is_dtx).
OpusOutputs ==
    { [ ok |-> FALSE, data |-> << >>, dtx |-> FALSE ],
      [ ok |-> TRUE, data |-> << 252, 17, 34 >>, dtx |-> FALSE ],
      [ ok |-> TRUE, data |-> << 248 >>, dtx |-> TRUE ] }

\* the datagram send_audio_frame builds
AudioDatagram(s, enc) ==
    LET frame == OutFrameAudio(s.room_id, s.user_id, CODEC_OPUS, s.sequence,
                               s.timestamp, enc.data)
    IN  OutFrameEncode([ frame EXCEPT !.header.dtx = enc.dtx ])

\* variant: a DTX frame does not advance the timestamp
SendAudioFrameDtxKeepsTimestamp(s, w, enc, send_ok) ==
    IF ~enc.ok THEN [ session |-> s, wire |-> w ]
    ELSE [ session |-> [ s EXCEPT !.sequence = WrappingAdd(s.sequence, 1),
                                  !.timestamp = IF enc.dtx THEN s.timestamp
                                                ELSE WrappingAdd(s.timestamp, AUDIO_FRAME_SAMPLES) ],
           wire |-> IF send_ok THEN Append(w, AudioDatagram(s, enc)) ELSE w ]

\* send_audio_frame: the session and the connection's log afterwards
SendAudioFrame(s, w, enc, send_ok) ==
    IF ~enc.ok THEN [ session |-> s, wire |-> w ]
    ELSE [ session |-> [ s EXCEPT !.sequence = WrappingAdd(s.sequence, 1),
                                  !.timestamp = WrappingAdd(s.timestamp, AUDIO_FRAME_SAMPLES) ],
           wire |-> IF send_ok THEN Append(w, AudioDatagram(s, enc)) ELSE w ]

(***************************************************************************)
(* Video start/stop and the camera path (state.rs)                         *)
(***************************************************************************)
\* variant: SetVideo(false) stops the camera and keeps the encoder
HandleSetVideoKeepsEncoder(s, l, evs, enabled, cam_ok, enc_ok) ==
    IF enabled = s.video THEN [ session |-> s, live |-> l, events |-> evs ]
    ELSE IF enabled
    THEN LET started == [ s EXCEPT !.camera_rx = TRUE, !.camera_stop = TRUE,
                                   !.camera_open = cam_ok ]
             l1 == Acquire(l, { "camera_rx", "camera_stop" })
         IN  IF enc_ok
             THEN [ session |-> [ started EXCEPT !.video_encoder = TRUE, !.video = TRUE,
                                                 !.video_sequence = U32Of(0),
                                                 !.video_timestamp = U32Of(0) ],
                    live |-> Acquire(l1, { "av1_encoder" }),
                    events |-> evs ]
             ELSE [ session |-> [ started EXCEPT !.camera_rx = FALSE, !.camera_stop = FALSE,
                                                 !.camera_open = FALSE ],
                    live |-> Release(l1, { "camera_rx", "camera_stop" }),
                    events |-> PushEvent(evs, EvVideoError("AV1 encoder init failed")) ]
    ELSE [ session |-> [ s EXCEPT !.camera_rx = FALSE, !.camera_stop = FALSE,
                                  !.camera_open = FALSE, !.video = FALSE ],
           live |-> Release(l, SessionResources(s) \cap { "camera_rx", "camera_stop" }),
           events |-> evs ]

\* variant: enabling video keeps the counters of the previous video period
HandleSetVideoKeepsCounters(s, l, evs, enabled, cam_ok, enc_ok) ==
    IF enabled = s.video THEN [ session |-> s, live |-> l, events |-> evs ]
    ELSE IF enabled
    THEN LET started == [ s EXCEPT !.camera_rx = TRUE, !.camera_stop = TRUE,
                                   !.camera_open = cam_ok ]
             l1 == Acquire(l, { "camera_rx", "camera_stop" })
         IN  IF enc_ok
             THEN [ session |-> [ started EXCEPT !.video_encoder = TRUE, !.video = TRUE ],
                    live |-> Acquire(l1, { "av1_encoder" }),
                    events |-> evs ]
             ELSE [ session |-> [ started EXCEPT !.camera_rx = FALSE, !.camera_stop = FALSE,
                                                 !.camera_open = FALSE ],
                    live |-> Release(l1, { "camera_rx", "camera_stop" }),
                    events |-> PushEvent(evs, EvVideoError("AV1 encoder init failed")) ]
    ELSE [ session |-> [ s EXCEPT !.camera_rx = FALSE, !.camera_stop = FALSE,
                                  !.camera_open = FALSE,
                                  !.video_encoder = FALSE, !.video = FALSE ],
           live |-> Release(l, SessionResources(s) \cap { "camera_rx", "camera_stop", "av1_encoder" }),
           events |-> evs ]

\* handle_set_video. start_camera_capture spawns the worker thread and always
\* returns Ok (video.rs:60-74); whether the worker then opens the device
\* (cam_ok) is only logged by the thread. The AV1 encoder may fail to
\* initialise (enc_ok).
HandleSetVideo(s, l, evs, enabled, cam_ok, enc_ok) ==
    IF enabled = s.video THEN [ session |-> s, live |-> l, events |-> evs ]
    ELSE IF enabled
    THEN LET started == [ s EXCEPT !.camera_rx = TRUE, !.camera_stop = TRUE,
                                   !.camera_open = cam_ok ]
             l1 == Acquire(l, { "camera_rx", "camera_stop" })
         IN  IF enc_ok
             THEN [ session |-> [ started EXCEPT !.video_encoder = TRUE, !.video = TRUE,
                                                 !.video_sequence = U32Of(0),
                                                 !.video_timestamp = U32Of(0) ],
                    live |-> Acquire(l1, { "av1_encoder" }),
                    events |-> evs ]
             ELSE [ session |-> [ started EXCEPT !.camera_rx = FALSE, !.camera_stop = FALSE,
                                                 !.camera_open = FALSE ],
                    live |-> Release(l1, { "camera_rx", "camera_stop" }),
                    events |-> PushEvent(evs, EvVideoError("AV1 encoder init failed")) ]
    ELSE [ session |-> [ s EXCEPT !.camera_rx = FALSE, !.camera_stop = FALSE,
                                  !.camera_open = FALSE,
                                  !.video_encoder = FALSE, !.video = FALSE ],
           live |-> Release(l, SessionResources(s) \cap { "camera_rx", "camera_stop", "av1_encoder" }),
           events |-> evs ]

\* the bytes of an encoded picture of the given length
VideoData(len) == [ i \in 1..len |-> (i * 7) % 256 ]

\* What Av1Encoder::encode may return for one frame: Err, or a list of packets.
EncoderOutputs ==
    { [ ok |-> FALSE, pkts |-> << >> ],
      [ ok |-> TRUE, pkts |-> << >> ],
      [ ok |-> TRUE, pkts |-> << [ len |-> 2, is_keyframe |-> TRUE ] >> ],
      [ ok |-> TRUE, pkts |-> << [ len |-> 1179, is_keyframe |-> FALSE ] >> ] }

\* the `for pkt in packets` loop of handle_camera_frame, from packet i on;
\* fails[i] is the failing send of packet i (0 for none)
RECURSIVE SendPackets(_, _, _, _, _)
SendPackets(s, w, pkts, fails, i) ==
    IF i > Len(pkts) THEN [ session |-> s, wire |-> w ]
    ELSE LET res == SendVideoFragmented(s.room_id, s.user_id, s.video_sequence,
                                        s.video_timestamp, pkts[i].is_keyframe,
                                        VideoData(pkts[i].len), fails[i])
         IN  SendPackets([ s EXCEPT !.video_sequence = res.seq,
                                    !.video_timestamp = WrappingAdd(s.video_timestamp, 1) ],
                         w \o res.sent, pkts, fails, i + 1)

\* the local preview entry of a captured frame (user_id = 0)
LocalPreview == [ user_id |-> U32Of(0), origin |-> "camera" ]

\* handle_camera_frame
HandleCameraFrame(s, w, evs, vq, enc, fails) ==
    LET vq1 == PushVideoFrame(vq, LocalPreview)
    IN  IF ~s.video_encoder
        THEN [ session |-> s, wire |-> w, events |-> evs, video_frames |-> vq1 ]
        ELSE IF ~enc.ok
        THEN [ session |-> s, wire |-> w,
               events |-> PushEvent(evs, EvVideoError("AV1 encode")),
               video_frames |-> vq1 ]
        ELSE LET r == SendPackets(s, w, enc.pkts, fails, 1)
             IN  [ session |-> r.session, wire |-> r.wire, events |-> evs,
                   video_frames |-> vq1 ]


\* variant: the muted arm emits SpeakingStop but leaves the speaking flag set
HandleCapturedPcmFlagKept(s, w, evs, above, held_off, enc, send_ok) ==
    IF ~s.muted
    THEN LET sp == UpdateSpeakingState(s.speaking_states, evs, s.user_id, above, held_off)
             r == SendAudioFrame([ s EXCEPT !.speaking_states = sp.states ], w, enc, send_ok)
         IN  [ session |-> r.session, wire |-> r.wire, events |-> sp.events ]
    ELSE IF IsSpeaking(s.speaking_states, s.user_id)
    THEN [ session |-> s, wire |-> w, events |-> PushEvent(evs, EvSpeakingStop(s.user_id)) ]
    ELSE [ session |-> s, wire |-> w, events |-> evs ]

\* the capture_rx arm of the Connected select
HandleCapturedPcm(s, w, evs, above, held_off, enc, send_ok) ==
    IF ~s.muted
    THEN LET sp == UpdateSpeakingState(s.speaking_states, evs, s.user_id, above, held_off)
             r == SendAudioFrame([ s EXCEPT !.speaking_states = sp.states ], w, enc, send_ok)
         IN  [ session |-> r.session, wire |-> r.wire, events |-> sp.events ]
    ELSE IF IsSpeaking(s.speaking_states, s.user_id)
         THEN [ session |-> [ s EXCEPT !.speaking_states =
                                         SetSpeaking(s.speaking_states, s.user_id, FALSE) ],
                wire |-> w,
                events |-> PushEvent(evs, EvSpeakingStop(s.user_id)) ]
         ELSE [ session |-> s, wire |-> w, events |-> evs ]

(***************************************************************************)
(* run_media_loop (state.rs): what each Connect and Disconnect arm does    *)
(***************************************************************************)
(***************************************************************************)
(* Inbound datagrams (state.rs receive_datagram) and the periodic cleanup  *)
(***************************************************************************)
\* entry(user).or_insert_with(new decoder), then last_used = now
TouchDecoder(decoders, u, t) ==
    [ k \in DOMAIN decoders \cup { u } |->
        IF k # u THEN decoders[k]
        ELSE IF u \in DOMAIN decoders THEN [ decoders[u] EXCEPT !.last_used = t ]
        ELSE [ born |-> t, last_used |-> t ] ]

\* What OpusDecoder::decode may return: Err, no samples, or samples whose
\* normalized RMS is above or below SPEAKING_THRESHOLD.
OpusDecodeOutcomes == { "err", "empty", "above", "below" }

\* What Av1Decoder::decode may return: Err, Ok(None) or Ok(Some(picture)).
Av1DecodeOutcomes == { "err", "none", "picture" }

\* receive_audio_frame
ReceiveAudioFrame(s, evs, frame, ad, held_off, t) ==
    LET u == frame.header.user_id
        s1 == [ s EXCEPT !.audio_decoders = TouchDecoder(@, u, t) ]
    IN  IF ad = "err" THEN [ session |-> s1, events |-> evs ]
        ELSE LET sp == IF ad = "empty"
                       THEN [ states |-> s1.speaking_states, events |-> evs ]
                       ELSE UpdateSpeakingState(s1.speaking_states, evs, u,
                                                ad = "above", held_off)
             IN  [ session |-> [ s1 EXCEPT !.speaking_states = sp.states,
                                           !.playback = Append(@, u) ],
                   events |-> sp.events ]

\* the VideoFrameOutput of a decoded picture
DecodedFrame(u) == [ user_id |-> u, origin |-> "decoder" ]

\* receive_video_fragment
ReceiveVideoFragment(s, vq, frame, vd, t) ==
    LET r == AddFragment(s.video_reassembler, frame.header, frame.payload, t)
        s1 == [ s EXCEPT !.video_reassembler = r.pending ]
    IN  IF r.frame = None THEN [ session |-> s1, video_frames |-> vq ]
        ELSE LET u == Unwrap(r.frame).user_id
             IN  [ session |-> [ s1 EXCEPT !.video_decoders = TouchDecoder(@, u, t) ],
                   video_frames |-> IF vd = "picture" THEN PushVideoFrame(vq, DecodedFrame(u))
                                    ELSE vq ]

\* variant: audio is handled whether or not the session is deafened
ReceiveDatagramDeafIgnored(s, evs, vq, data, ad, vd, held_off, t) ==
    LET f == InFrameDecode(data)
        same == [ session |-> s, events |-> evs, video_frames |-> vq ]
    IN  IF f = None THEN same
        ELSE IF Unwrap(f).header.media_type = MEDIA_TYPE_AUDIO
        THEN LET r == ReceiveAudioFrame(s, evs, Unwrap(f), ad, held_off, t)
             IN  [ session |-> r.session, events |-> r.events, video_frames |-> vq ]
        ELSE IF Unwrap(f).header.media_type = MEDIA_TYPE_VIDEO
        THEN LET r == ReceiveVideoFragment(s, vq, Unwrap(f), vd, t)
             IN  [ session |-> r.session, events |-> evs, video_frames |-> r.video_frames ]
        ELSE same

\* variant: a datagram of an unknown media type is handled as audio
ReceiveDatagramAudioByDefault(s, evs, vq, data, ad, vd, held_off, t) ==
    LET f == InFrameDecode(data)
        same == [ session |-> s, events |-> evs, video_frames |-> vq ]
    IN  IF f = None THEN same
        ELSE IF Unwrap(f).header.media_type = MEDIA_TYPE_VIDEO
        THEN LET r == ReceiveVideoFragment(s, vq, Unwrap(f), vd, t)
             IN  [ session |-> r.session, events |-> evs, video_frames |-> r.video_frames ]
        ELSE IF s.deafened THEN same
        ELSE LET r == ReceiveAudioFrame(s, evs, Unwrap(f), ad, held_off, t)
             IN  [ session |-> r.session, events |-> r.events, video_frames |-> vq ]

\* receive_datagram
ReceiveDatagram(s, evs, vq, data, ad, vd, held_off, t) ==
    LET f == InFrameDecode(data)
        same == [ session |-> s, events |-> evs, video_frames |-> vq ]
    IN  IF f = None THEN same
        ELSE IF Unwrap(f).header.media_type = MEDIA_TYPE_AUDIO
        THEN IF s.deafened THEN same
             ELSE LET r == ReceiveAudioFrame(s, evs, Unwrap(f), ad, held_off, t)
                  IN  [ session |-> r.session, events |-> r.events, video_frames |-> vq ]
        ELSE IF Unwrap(f).header.media_type = MEDIA_TYPE_VIDEO
        THEN LET r == ReceiveVideoFragment(s, vq, Unwrap(f), vd, t)
             IN  [ session |-> r.session, events |-> evs, video_frames |-> r.video_frames ]
        ELSE same

\* evict_idle_decoders, for one of the two maps
EvictIdleDecoders(decoders, t) ==
    [ k \in { u \in DOMAIN decoders : t - decoders[u].last_used < DECODER_IDLE_TIMEOUT } |->
        decoders[k] ]

\* variant: the cleanup evicts stale partial pictures only
PeriodicCleanupReassemblerOnly(s, t) ==
    [ s EXCEPT !.video_reassembler = EvictStale(@, REASSEMBLY_STALE_TIMEOUT, t) ]

\* the periodic cleanup at the end of a Connected loop iteration
PeriodicCleanup(s, t) ==
    [ s EXCEPT !.video_reassembler = EvictStale(@, REASSEMBLY_STALE_TIMEOUT, t),
               !.audio_decoders = EvictIdleDecoders(@, t),
               !.video_decoders = EvictIdleDecoders(@, t) ]

\* Connect while Connected: `session = None` before establish_session
TearDownBeforeConnect(l, sess) == DropSession(l, sess)

\* QUIC read error: `session = None` before reconnect_with_backoff
TearDownBeforeReconnect(l, sess) == DropSession(l, sess)

\* variant: a successful Connect that does not save its params
ConnectOutcomeParamsNotSaved(res, p, evs, params) ==
    IF res.ok
    THEN [ events |-> PushEvent(evs, EvConnected), params |-> params,
           session |-> Some(res.session) ]
    ELSE [ events |-> PushEvent(evs, EvConnectFailed(res.err)), params |-> params,
           session |-> None ]

\* the match on establish_session's result in both Connect arms
ConnectOutcome(res, p, evs, params) ==
    IF res.ok
    THEN [ events |-> PushEvent(evs, EvConnected), params |-> Some(p),
           session |-> Some(res.session) ]
    ELSE [ events |-> PushEvent(evs, EvConnectFailed(res.err)), params |-> params,
           session |-> None ]

\* variant: a Disconnect that pushes no event
DisconnectOutcomeSilent(evs) == [ events |-> evs, params |-> None, session |-> None ]

\* variant: a Disconnect that leaves the saved params in place
DisconnectOutcomeParamsKept(evs) ==
    [ events |-> PushEvent(evs, EvDisconnected("user requested")),
      params |-> last_connect_params, session |-> None ]

\* the Disconnect arm of the Connected select
DisconnectOutcome(evs) ==
    [ events |-> PushEvent(evs, EvDisconnected("user requested")),
      params |-> None, session |-> None ]

(***************************************************************************)
(* vox-mls: results, texts and byte strings                                *)
(***************************************************************************)
\* Result<T, String>
Ok(v) == [ ok |-> TRUE, value |-> v ]
Err(e) == [ ok |-> FALSE, error |-> e ]

\* u64 as four 16-bit limbs, most significant first
U64Of(n) == << 0, 0, 0, n >>
\* user_id.try_into::<i64>() fails
ExceedsI64(u) == u[1] >= 32768

\* serde_json::to_string of a credential or a key pair
ToJson(v) == << "{", v, "}" >>
\* serde_json::from_str::<T>
FromJson(s, type) ==
    IF Len(s) = 3 /\ s[1] = "{" /\ s[3] = "}" /\ s[2].type = type
    THEN Ok(s[2])
    ELSE Err("deserialize")

\* tls_serialize_detached
TlsSerialize(v) == << "tls", v >>
\* T::tls_deserialize_exact
TlsDeserialize(bytes, type) ==
    IF Len(bytes) = 2 /\ bytes[1] = "tls" /\ bytes[2].type = type
    THEN Ok(bytes[2])
    ELSE Err("tls")

\* base64 STANDARD engine
B64Encode(x) == << "base64", x >>
B64Decode(s) ==
    IF Len(s) = 2 /\ s[1] = "base64" THEN Ok(s[2]) ELSE Err("base64")

\* AES-256-GCM: the ciphertext with its tag opens under the key and the
\* nonce it was sealed with, and under nothing else
AeadEncrypt(key, nonce, plaintext) ==
    [ key |-> key, nonce |-> nonce, sealed |-> plaintext ]
AeadDecrypt(key, nonce, ciphertext) ==
    IF ciphertext.key = key /\ ciphertext.nonce = nonce
    THEN Ok(ciphertext.sealed)
    ELSE Err("aead")

(***************************************************************************)
(* vox-mls: provider.rs                                                    *)
(***************************************************************************)
ENC_PREFIX == "enc:v1:"

\* encrypt_if_needed(&self, plaintext), with the nonce OsRng produced
EncryptIfNeeded(encryption_key, plaintext, nonce) ==
    IF encryption_key = None
    THEN Ok(plaintext)
    ELSE Ok(<< ENC_PREFIX, B64Encode(nonce), "/",
               B64Encode(AeadEncrypt(Unwrap(encryption_key), nonce, plaintext)) >>)

\* decrypt_if_needed with a cipher that opens under any configured key
DecryptIfNeededAnyKey(encryption_key, stored) ==
    IF Len(stored) = 0 \/ stored[1] # ENC_PREFIX THEN Ok(stored)
    ELSE IF encryption_key = None
    THEN Err("Encrypted key material found but no encryption key configured")
    ELSE IF Len(stored) # 4 \/ stored[3] # "/"
    THEN Err("Malformed encrypted value: missing separator")
    ELSE Ok(B64Decode(stored[4]).value.sealed)

\* decrypt_if_needed(&self, stored)
DecryptIfNeeded(encryption_key, stored) ==
    IF Len(stored) = 0 \/ stored[1] # ENC_PREFIX THEN Ok(stored)
    ELSE IF encryption_key = None
    THEN Err("Encrypted key material found but no encryption key configured")
    ELSE IF Len(stored) # 4 \/ stored[3] # "/"
    THEN Err("Malformed encrypted value: missing separator")
    ELSE LET nonce_bytes == B64Decode(stored[2])
             ciphertext == B64Decode(stored[4])
         IN  IF ~nonce_bytes.ok THEN Err("Failed to decode nonce")
             ELSE IF ~ciphertext.ok THEN Err("Failed to decode ciphertext")
             ELSE LET plaintext == AeadDecrypt(Unwrap(encryption_key),
                                               nonce_bytes.value, ciphertext.value)
                  IN  IF plaintext.ok THEN plaintext
                      ELSE Err("Failed to decrypt key material")

\* the database a connection reads: the two custom tables and the tables of
\* the MLS library; schema tells what run_migrations finds
BlankDb ==
    [ schema |-> "none", vox_identity |-> None, vox_groups |-> {},
      signature_keys |-> {}, key_packages |-> {}, groups |-> {} ]

\* SqliteStorageProvider::run_migrations
RunMigrations(db) ==
    IF db.schema \in { "none", "current" }
    THEN Ok([ db EXCEPT !.schema = "current" ])
    ELSE Err("Failed to run storage migrations")

\* VoxProvider::new on the database found at db_path
ProviderNew(db_path, found, encryption_key, connection) ==
    LET migrated == RunMigrations(found)
    IN  IF ~migrated.ok THEN migrated
        ELSE Ok([ provider |-> [ db_path |-> db_path, connection |-> connection,
                                 encryption_key |-> encryption_key ],
                  db |-> migrated.value ])

\* save_identity: INSERT OR REPLACE of the row with id 1
SaveIdentity(provider, db, user_id, device_id, credential_with_key_json, signature_key_pair_json, nonce) ==
    IF ExceedsI64(user_id) THEN Err("user_id exceeds i64::MAX")
    ELSE LET stored_sig == EncryptIfNeeded(provider.encryption_key,
                                           signature_key_pair_json, nonce)
         IN  Ok([ db EXCEPT !.vox_identity =
                     Some([ user_id |-> user_id, device_id |-> device_id,
                            credential_with_key |-> credential_with_key_json,
                            signature_key_pair |-> stored_sig.value ]) ])

\* load_identity: Ok(None), Ok(Some(row with the key pair decrypted)) or Err
LoadIdentity(provider, db) ==
    IF db.vox_identity = None THEN Ok(None)
    ELSE LET row == Unwrap(db.vox_identity)
             sig_json == DecryptIfNeeded(provider.encryption_key,
                                         row.signature_key_pair)
         IN  IF ~sig_json.ok THEN sig_json
             ELSE Ok(Some([ row EXCEPT !.signature_key_pair = sig_json.value ]))

\* save_group_id: INSERT OR IGNORE
SaveGroupId(db, group_id) ==
    [ db EXCEPT !.vox_groups = @ \cup { group_id } ]

\* list_group_ids
ListGroupIds(db) == db.vox_groups

\* export_db: the serialized image of the database
SQLITE_MAGIC == "SQLite format 3"
ExportDb(db) == << SQLITE_MAGIC, db >>

\* the steps of import_db that the environment can make fail
ImportFaults == { "none", "open", "backup", "migrations", "tables" }

\* import_db(&mut self, data): the provider and the database at db_path after
\* the call. A connection opened on ":memory:" is a database of its own; one
\* opened on a file is the file, which the backup overwrites in step 4.
ImportDb(provider, db, data, fault, connection) ==
    LET unchanged(e) == [ ok |-> FALSE, error |-> e, provider |-> provider, db |-> db ]
        readable == Len(data) = 2 /\ data[1] = SQLITE_MAGIC
        restored == data[2]
        copied(e) == [ ok |-> FALSE, error |-> e, provider |-> provider,
                       db |-> IF provider.db_path = ":memory:" THEN db ELSE restored ]
        migrated == RunMigrations(restored)
    IN  IF ~readable THEN unchanged("Failed to deserialize backup")
        ELSE IF fault = "open" THEN unchanged("Failed to open new connection")
        ELSE IF fault = "backup" THEN unchanged("Failed to restore backup")
        ELSE IF fault = "migrations" \/ ~migrated.ok
        THEN copied("Failed to run migrations after restore")
        ELSE IF fault = "tables"
        THEN [ copied("Failed to create custom tables after restore")
               EXCEPT !.db = IF provider.db_path = ":memory:" THEN db
                             ELSE migrated.value ]
        ELSE [ ok |-> TRUE, error |-> "",
               provider |-> [ provider EXCEPT !.connection = connection ],
               db |-> migrated.value ]

(***************************************************************************)
(* vox-mls: the MLS library as identity.rs and group.rs use it             *)
(***************************************************************************)
\* SignatureKeyPair::new, from the randomness the call drew
NewSignatureKeyPair(seed) ==
    [ type |-> "SignatureKeyPair", private |-> seed, public |-> << "public", seed >> ]

\* format!("{user_id}:{device_id}") as the bytes of a BasicCredential
IdentityOf(user_id, device_id) == << user_id, ":", device_id >>

\* identity::generate_identity: the key pair goes to the key store of the library
GenerateIdentity(db, user_id, device_id, seed) ==
    LET signature_keys == NewSignatureKeyPair(seed)
    IN  [ credential_with_key |->
              [ type |-> "CredentialWithKey",
                credential |-> IdentityOf(user_id, device_id),
                signature_key |-> signature_keys.public ],
          signature_keys |-> signature_keys,
          db |-> [ db EXCEPT !.signature_keys = @ \cup { signature_keys } ] ]

\* identity::generate_key_package: the private part stays in the store
GenerateKeyPackage(db, credential_with_key, signature_keys, seed) ==
    [ key_package |->
          [ type |-> "KeyPackage",
            credential |-> credential_with_key.credential,
            signature_key |-> credential_with_key.signature_key,
            init_key |-> << "init", seed >>,
            signature |-> signature_keys.public ],
      db |-> [ db EXCEPT !.key_packages = @ \cup
                 { [ init_key |-> << "init", seed >>,
                     credential |-> credential_with_key.credential ] } ] ]

\* KeyPackageIn::validate: the signature is the one of the key in the leaf
ValidateKeyPackage(kp_in) ==
    IF kp_in.signature = kp_in.signature_key
    THEN Ok(kp_in)
    ELSE Err("Invalid key package")

\* MlsGroup::load
GroupLoad(db, group_id) ==
    LET found == { g \in db.groups : g.group_id = group_id }
    IN  IF found = {} THEN None ELSE Some(CHOOSE g \in found : TRUE)

\* what every mutating call of the library does with the group it changed
GroupStore(db, g) ==
    [ db EXCEPT !.groups = { h \in @ : h.group_id # g.group_id } \cup { g } ]

\* the secret of an epoch, from the randomness of the commit that opened it
EpochSecret(group_id, epoch, seed) ==
    [ group_id |-> group_id, epoch |-> epoch, seed |-> seed ]

\* an MlsMessageOut
MlsMessage(format, g, content) ==
    [ type |-> "MlsMessage", wire |-> format, group_id |-> g.group_id,
      epoch |-> g.epoch, secret |-> g.secret, sender |-> g.own,
      generation |-> g.generation, content |-> content ]

\* MlsGroup::new_with_group_id: a group of one at epoch 0, already stored
NewWithGroupId(credential_with_key, group_id, seed) ==
    [ group_id |-> group_id, epoch |-> 0,
      secret |-> EpochSecret(group_id, 0, seed),
      members |-> { credential_with_key.credential },
      own |-> credential_with_key.credential,
      pending_commit |-> None, generation |-> 0, consumed |-> {},
      proposals |-> {} ]

\* the credentials of a list of key packages
CredentialsOf(kps) == { kps[i].credential : i \in 1..Len(kps) }

\* MlsGroup::add_members: the commit stays pending in the group
AddMembers(g, kps, seed) ==
    IF \/ g.pending_commit # None
       \/ CredentialsOf(kps) \cap g.members # {}
       \/ Cardinality(CredentialsOf(kps)) # Len(kps)
    THEN Err("Failed to add members")
    ELSE LET staged == [ members |-> g.members \cup CredentialsOf(kps),
                         secret |-> EpochSecret(g.group_id, g.epoch + 1, seed) ]
             joined == [ g EXCEPT !.epoch = @ + 1, !.secret = staged.secret,
                                  !.members = staged.members, !.generation = 0 ]
         IN  Ok([ group |-> [ g EXCEPT !.pending_commit = Some(staged) ],
                  commit |-> MlsMessage("commit", g, staged),
                  welcome |-> MlsMessage("welcome", joined,
                      [ members |-> staged.members,
                        init_keys |-> { kps[i].init_key : i \in 1..Len(kps) } ]) ])

\* entering the epoch a commit opens
EnterEpoch(g, staged) ==
    [ g EXCEPT !.epoch = @ + 1, !.secret = staged.secret,
               !.members = staged.members, !.pending_commit = None,
               !.generation = 0, !.consumed = {}, !.proposals = {} ]

\* merge_pending_commit left out: the commit stays pending
MergePendingCommitSkipped(g) == g

\* MlsGroup::merge_pending_commit
MergePendingCommit(g) ==
    IF g.pending_commit = None THEN g ELSE EnterEpoch(g, Unwrap(g.pending_commit))

\* group::create_group: the store and the messages after the call
CreateGroup(db, signature_keys, credential_with_key, group_id, member_key_packages, seed, replace) ==
    LET fresh == NewWithGroupId(credential_with_key, group_id, seed)
        created == GroupStore(db, fresh)
        failed(at, e) == [ ok |-> FALSE, error |-> e, db |-> at,
                           welcome |-> None, commit |-> None ]
        invalid == \E i \in 1..Len(member_key_packages) :
                       ~ValidateKeyPackage(member_key_packages[i]).ok
        added == AddMembers(fresh, member_key_packages, seed)
    IN  IF GroupLoad(db, group_id) # None /\ ~replace
        THEN failed(db, "Failed to create group")
        ELSE IF Len(member_key_packages) = 0
        THEN [ ok |-> TRUE, error |-> "", db |-> created,
               welcome |-> None, commit |-> None ]
        ELSE IF invalid THEN failed(created, "Invalid key package")
        ELSE IF ~added.ok THEN failed(created, added.error)
        ELSE [ ok |-> TRUE, error |-> "",
               db |-> GroupStore(db, MergePendingCommit(added.value.group)),
               welcome |-> Some(added.value.welcome),
               commit |-> Some(added.value.commit) ]

\* group::add_member on the group loaded from the store
AddMember(db, g, key_package_bytes, seed) ==
    LET kp_in == TlsDeserialize(key_package_bytes, "KeyPackage")
        failed(e) == [ ok |-> FALSE, error |-> e, db |-> db,
                       welcome |-> None, commit |-> None ]
    IN  IF ~kp_in.ok THEN failed("Failed to deserialize key package")
        ELSE IF ~ValidateKeyPackage(kp_in.value).ok THEN failed("Invalid key package")
        ELSE LET added == AddMembers(g, << kp_in.value >>, seed)
             IN  IF ~added.ok THEN failed(added.error)
                 ELSE [ ok |-> TRUE, error |-> "",
                        db |-> GroupStore(db, MergePendingCommit(added.value.group)),
                        welcome |-> Some(added.value.welcome),
                        commit |-> Some(added.value.commit) ]

\* group::join_group: the envelope or the bare Welcome, then the staged
\* welcome turned into a stored group; the key package it used is consumed
JoinGroup(db, welcome_bytes) ==
    LET msg_in == TlsDeserialize(welcome_bytes, "MlsMessage")
        bare == TlsDeserialize(welcome_bytes, "Welcome")
        failed(e) == [ ok |-> FALSE, error |-> e, db |-> db, group_id |-> "" ]
    IN  IF msg_in.ok /\ msg_in.value.wire # "welcome"
        THEN failed("MLS message is not a Welcome")
        ELSE IF ~msg_in.ok /\ ~bare.ok THEN failed("Failed to deserialize welcome")
        ELSE LET w == IF msg_in.ok THEN msg_in.value ELSE bare.value
                 mine == { kp \in db.key_packages : kp.init_key \in w.content.init_keys }
             IN  IF mine = {} THEN failed("Failed to stage welcome")
                 ELSE LET kp == CHOOSE k \in mine : TRUE
                          g == [ group_id |-> w.group_id, epoch |-> w.epoch,
                                 secret |-> w.secret, members |-> w.content.members,
                                 own |-> kp.credential, pending_commit |-> None,
                                 generation |-> 0, consumed |-> {},
                                 proposals |-> {} ]
                      IN  [ ok |-> TRUE, error |-> "", group_id |-> w.group_id,
                            db |-> GroupStore([ db EXCEPT !.key_packages = @ \ { kp } ], g) ]

\* group::encrypt without the step of the sender's ratchet being stored
GroupEncryptSameGeneration(db, g, plaintext) ==
    IF g.pending_commit # None
    THEN [ ok |-> FALSE, error |-> "Failed to encrypt", db |-> db, bytes |-> << >> ]
    ELSE [ ok |-> TRUE, error |-> "", db |-> db,
           bytes |-> TlsSerialize(MlsMessage("application", g, plaintext)) ]

\* group::encrypt: MlsGroup::create_message, then the serialization
GroupEncrypt(db, g, plaintext) ==
    IF g.pending_commit # None
    THEN [ ok |-> FALSE, error |-> "Failed to encrypt", db |-> db, bytes |-> << >> ]
    ELSE [ ok |-> TRUE, error |-> "",
           db |-> GroupStore(db, [ g EXCEPT !.generation = @ + 1 ]),
           bytes |-> TlsSerialize(MlsMessage("application", g, plaintext)) ]

\* the wire formats try_into_protocol_message accepts
ProtocolWires == { "application", "commit", "proposal", "external_join_proposal" }

\* ProcessedResult, with the plaintext of an application message
ProcessedResult(kind, data) == [ kind |-> kind, data |-> data ]

\* group::process_message on the group loaded from the store
GroupProcessMessage(db, g, message_bytes) ==
    LET mls_in == TlsDeserialize(message_bytes, "MlsMessage")
        failed(e) == [ ok |-> FALSE, error |-> e, db |-> db,
                       result |-> ProcessedResult("", None) ]
        done(h, kind, data) == [ ok |-> TRUE, error |-> "", db |-> GroupStore(db, h),
                                 result |-> ProcessedResult(kind, data) ]
    IN  IF ~mls_in.ok THEN failed("Failed to deserialize message")
        ELSE LET m == mls_in.value
             IN  IF m.wire \notin ProtocolWires THEN failed("Not a protocol message")
                 ELSE IF \/ m.group_id # g.group_id \/ m.epoch # g.epoch
                         \/ m.secret # g.secret \/ m.sender \notin g.members
                         \/ m.sender = g.own
                         \/ (m.wire = "application"
                               /\ << m.sender, m.generation >> \in g.consumed)
                 THEN failed("Failed to process message")
                 ELSE IF m.wire = "application"
                 THEN done([ g EXCEPT !.consumed = @ \cup { << m.sender, m.generation >> } ],
                           "application", Some(m.content))
                 ELSE IF m.wire = "commit"
                 THEN done(EnterEpoch(g, m.content), "commit", None)
                 ELSE IF m.wire = "proposal"
                 THEN done([ g EXCEPT !.proposals = @ \cup { m.content } ],
                           "proposal", None)
                 ELSE done(g, "external_join_proposal", None)

(***************************************************************************)
(* vox-mls: lib.rs, the engine                                             *)
(***************************************************************************)
Engines == { "alice", "bob", "carol" }

\* the db_path each host hands to MlsEngine::new: carol keeps a database file
DbPath(e) == IF e = "carol" THEN "carol.db" ELSE ":memory:"

\* the user_id and device_id each host hands to generate_identity
UserId(e) == CASE e = "alice" -> U64Of(1) [] e = "bob" -> U64Of(2) [] OTHER -> U64Of(3)
DeviceId(e) == "phone"

\* the credential and the key pair of a stored row, as MlsEngine::new and
\* import_state decode them
DecodeIdentity(row) ==
    LET cwk == FromJson(row.credential_with_key, "CredentialWithKey")
        sig == FromJson(row.signature_key_pair, "SignatureKeyPair")
    IN  IF ~cwk.ok THEN Err("Failed to deserialize stored credential")
        ELSE IF ~sig.ok THEN Err("Failed to deserialize stored signature keys")
        ELSE Ok([ credential_with_key |-> cwk.value, signature_keys |-> sig.value ])

\* MlsEngine::new(db_path) on the database found at the path
EngineNew(db_path, found, connection) ==
    LET opened == ProviderNew(db_path, found, None, connection)
        failed(e, db) == [ ok |-> FALSE, error |-> e, engine |-> None, db |-> db ]
    IN  IF ~opened.ok THEN failed(opened.error, found)
        ELSE LET provider == opened.value.provider
                 db == opened.value.db
                 loaded == LoadIdentity(provider, db)
             IN  IF ~loaded.ok THEN failed("Failed to load identity from database", db)
                 ELSE IF loaded.value = None
                 THEN [ ok |-> TRUE, error |-> "", db |-> db,
                        engine |-> Some([ provider |-> provider,
                                          credential_with_key |-> None,
                                          signature_keys |-> None ]) ]
                 ELSE LET decoded == DecodeIdentity(Unwrap(loaded.value))
                      IN  IF ~decoded.ok THEN failed(decoded.error, db)
                          ELSE [ ok |-> TRUE, error |-> "",
                                 db |-> [ db EXCEPT !.signature_keys =
                                            @ \cup { decoded.value.signature_keys } ],
                                 engine |-> Some([ provider |-> provider,
                                     credential_with_key |->
                                         Some(decoded.value.credential_with_key),
                                     signature_keys |->
                                         Some(decoded.value.signature_keys) ]) ]

\* group_exists(&self, group_id)
GroupExists(db, group_id) == GroupLoad(db, group_id) # None

\* list_groups(&self)
ListGroups(db) == ListGroupIds(db)

\* identity_key(&self)
IdentityKey(engine) ==
    IF engine.signature_keys = None THEN None
    ELSE Some(Unwrap(engine.signature_keys).public)

\* what a call returned
Returned(name, e, ok, value) == [ op |-> name, by |-> e, ok |-> ok, value |-> value ]

\* a call that raised: the exception type and its message
Raised(name, e, exception, message) ==
    Returned(name, e, FALSE, Some([ exception |-> exception, message |-> message ]))

\* the engines whose identity is one of the credentials, the sender excepted
Recipients(credentials, sender) ==
    { e \in Engines \ { sender } :
        /\ engines[e] # None
        /\ Unwrap(engines[e]).credential_with_key # None
        /\ Unwrap(Unwrap(engines[e]).credential_with_key).credential \in credentials }

\* the delivery service: a message of a group reaches every other member
Deliver(to, entry) ==
    [ e \in Engines |-> IF e \in to THEN Append(inbox[e], entry) ELSE inbox[e] ]

(***************************************************************************)
(* video.rs: the camera worker thread and its channel                      *)
(***************************************************************************)
\* mpsc::channel(4) of start_camera_capture
CAMERA_CHANNEL_CAP == 4

\* try_send that makes room by dropping the oldest queued frame
TrySendDropOldest(chan, closed, frame) ==
    IF closed THEN [ chan |-> chan, result |-> "Closed" ]
    ELSE IF Len(chan) >= CAMERA_CHANNEL_CAP
    THEN [ chan |-> Append(Tail(chan), frame), result |-> "Ok" ]
    ELSE [ chan |-> Append(chan, frame), result |-> "Ok" ]

\* tx.try_send(captured): never waits; Err(Full) on a full channel, Err(Closed)
\* once the receiver is dropped
TrySend(chan, closed, frame) ==
    IF closed THEN [ chan |-> chan, result |-> "Closed" ]
    ELSE IF Len(chan) >= CAMERA_CHANNEL_CAP THEN [ chan |-> chan, result |-> "Full" ]
    ELSE [ chan |-> Append(chan, frame), result |-> "Ok" ]

\* start_camera_capture: a fresh channel, a fresh stop flag and a spawned
\* thread that has yet to open the device; it always returns Ok
StartCameraCapture(workers) == Append(workers, [ pc |-> "open", stop |-> FALSE ])

\* Drop for CameraStopHandle: the flag of the worker the handle belongs to
DropStopHandle(workers, w) == [ workers EXCEPT ![w].stop = TRUE ]

\* the threads that were spawned and have not returned from camera_thread
RunningWorkers == { w \in 1..Len(cam_workers) : cam_workers[w].pc # "exited" }

\* the harness session before video is first switched on
InitCameraIdle ==
    /\ cam_session = NewSession([ room_id |-> U32Of(7), user_id |-> U32Of(1) ])
    /\ cam_workers = << >>
    /\ cam_chan = << >>
    /\ cam_received = << >>
    /\ cam_dropped = << >>
    /\ cam_captured = << >>

(***************************************************************************)
(* audio.rs: the playback device callback. A buffer of samples is kept as  *)
(* runs [ v, n ]: n samples of value v in a row, no two neighbouring runs  *)
(* of one value.                                                           *)
(***************************************************************************)
TARGET_RATE == 48000

\* s as f32 / 32767.0, as the fraction it is; 0.0 is the silence of an
\* empty slot
F32Of(s) == IF s = 0 THEN << 0, 1 >> ELSE << s, 32767 >>
Silence == << 0, 1 >>

RECURSIVE RunLen(_)
RunLen(q) == IF q = << >> THEN 0 ELSE Head(q).n + RunLen(Tail(q))

\* push_back of n samples of value v
PushRun(q, v, n) ==
    IF n = 0 THEN q
    ELSE IF q # << >> /\ q[Len(q)].v = v
    THEN [ q EXCEPT ![Len(q)].n = @ + n ]
    ELSE Append(q, [ v |-> v, n |-> n ])

\* buf.drain(..k), and k times pop_front: the buffer that is left
RECURSIVE DrainFront(_, _)
DrainFront(q, k) ==
    IF k = 0 \/ q = << >> THEN q
    ELSE IF Head(q).n <= k THEN DrainFront(Tail(q), k - Head(q).n)
    ELSE << [ Head(q) EXCEPT !.n = @ - k ] >> \o Tail(q)

\* the first k samples of the buffer, in order
RECURSIVE TakeFront(_, _)
TakeFront(q, k) ==
    IF k = 0 \/ q = << >> THEN << >>
    ELSE IF Head(q).n <= k THEN << Head(q) >> \o TakeFront(Tail(q), k - Head(q).n)
    ELSE << [ Head(q) EXCEPT !.n = k ] >>

\* upmix_from_mono_f32 onto the buffer (for one channel: the push_back loop):
\* every sample of the frame, as f32, once per channel
RECURSIVE ExtendUpmixed(_, _, _)
ExtendUpmixed(buf, frame, channels) ==
    IF frame = << >> THEN buf
    ELSE ExtendUpmixed(PushRun(buf, F32Of(Head(frame).v), Head(frame).n * channels),
                       Tail(frame), channels)

\* while let Ok(frame) = rx.try_recv(): every waiting frame, oldest first
RECURSIVE DrainFrames(_, _, _)
DrainFrames(buf, rx, channels) ==
    IF rx = << >> THEN buf
    ELSE DrainFrames(ExtendUpmixed(buf, Head(rx), channels), Tail(rx), channels)

\* max_buf: two seconds of device samples
MaxBuf(dev_rate, dev_channels) == dev_rate * dev_channels * 2

\* the cap that drops the newest samples instead of the oldest
CapBufferAtBack(buf, max_buf) == TakeFront(buf, max_buf)

\* if buf.len() > max_buf { buf.drain(..excess) }
CapBuffer(buf, max_buf) ==
    IF RunLen(buf) > max_buf THEN DrainFront(buf, RunLen(buf) - max_buf) ELSE buf

\* the output callback of start_playback on a slice of data_len slots: the
\* buffer it leaves and what it wrote
PlaybackCallback(buf, rx, dev_rate, dev_channels, data_len) ==
    LET capped == CapBuffer(DrainFrames(buf, rx, dev_channels),
                            MaxBuf(dev_rate, dev_channels))
        popped == IF data_len < RunLen(capped) THEN data_len ELSE RunLen(capped)
        played == TakeFront(capped, popped)
    IN  [ buf |-> DrainFront(capped, popped),
          data |-> PushRun(played, Silence, data_len - popped) ]

\* no playback stream yet
InitPlaybackIdle ==
    /\ pb_channels = 0
    /\ pb_rx = << >>
    /\ pb_buf = << >>
    /\ pb_out = << >>
    /\ pb_calls = 0

InitMls ==
    /\ engines = [ e \in Engines |-> EngineNew(DbPath(e), BlankDb, 0).engine ]
    /\ stores = [ e \in Engines |-> EngineNew(DbPath(e), BlankDb, 0).db ]
    /\ mls_ret = Returned("new", "alice", TRUE, None)
    /\ published = {}
    /\ welcomes = {}
    /\ inbox = [ e \in Engines |-> << >> ]
    /\ exports = {}
    /\ mls_ops = 0

\* the provider harness before its first call
InitProviderIdle ==
    /\ pv = ProviderNew("vault.db", BlankDb, None, 0).value.provider
    /\ pv_db = ProviderNew("vault.db", BlankDb, None, 0).value.db
    /\ pv_saved = None
    /\ pv_ret = None

(***************************************************************************)
(* Initial state: VoxMediaClient::start() has spawned run_media_loop       *)
(***************************************************************************)
InitSession ==
    /\ pc = "select"
    /\ session = None
    /\ last_connect_params = None
    /\ connecting = NoParams
    /\ attempt = 0
    /\ delay_secs = 0
    /\ cmd_rx = << >>
    /\ cmd_tx = TRUE
    /\ cancel = FALSE
    /\ events = << >>
    /\ video_frames = << >>
    /\ wire = << >>
    /\ live = NoneAlive
    /\ op = "start"
    /\ n_in = 0
    /\ client = [ muted |-> FALSE, deafened |-> FALSE, video |-> FALSE ]
    /\ out_log = << >>

NoVideoInput ==
    [ len |-> 0, start_seq |-> U32Of(0), timestamp |-> U32Of(0), is_keyframe |-> FALSE,
      room_id |-> U32Of(0), user_id |-> U32Of(0) ]

InitVideoIdle ==
    /\ vf_in = NoVideoInput
    /\ vf_out = << >>
    /\ vf_seq = U32Of(0)
    /\ vf_result = "idle"
    /\ ra_pending = << >>
    /\ ra_fed = {}
    /\ ra_returned = << >>
    /\ ra_evicted = {}
    /\ now = 0

NoHeader ==
    [ version |-> 0, media_type |-> 0, codec_id |-> 0, flags |-> 0,
      room_id |-> U32Of(0), user_id |-> U32Of(0), sequence |-> U32Of(0),
      timestamp |-> U32Of(0), spatial_id |-> 0, temporal_id |-> 0, dtx |-> FALSE ]

InitHeaderIdle ==
    /\ hdr_in = NoHeader
    /\ hdr_bytes = << >>
    /\ hdr_out = << >>

InitQueueIdle ==
    /\ vq_pushed = 0
    /\ vq_polled = << >>

InitSpeakingIdle ==
    /\ sp_states = << >>
    /\ sp_now = 0
    /\ sp_log = << >>

InitMediaIdle == rx_last = None

Init ==
    /\ InitSession /\ InitVideoIdle /\ InitHeaderIdle /\ InitQueueIdle
    /\ InitSpeakingIdle /\ InitMediaIdle
    /\ InitMls /\ InitProviderIdle /\ InitCameraIdle /\ InitPlaybackIdle

(***************************************************************************)
(* The host thread (lib.rs VoxMediaClient)                                 *)
(***************************************************************************)
\* send_cmd
SendCmd(c) ==
    /\ cmd_tx
    /\ cmd_rx' = Append(cmd_rx, c)
    /\ n_in' = n_in + 1
    /\ UNCHANGED << pc, session, last_connect_params, connecting, attempt, delay_secs,
                    cmd_tx, cancel, events, video_frames, wire, live, op >>
    /\ UNCHANGED << vf_in, vf_out, vf_seq, vf_result, ra_pending, ra_fed, ra_returned,
                    ra_evicted, now, hvars, qvars, pvars, mvars, evars, kvars, cvars,
                    avars, out_log >>

\* connect and disconnect leave the fields of the client alone
HostConnect(p) == SendCmd(CmdConnect(p)) /\ UNCHANGED client
HostDisconnect == SendCmd(CmdDisconnect) /\ UNCHANGED client

\* set_mute: self.muted = muted, then the command
HostSetMute(b) == client' = [ client EXCEPT !.muted = b ] /\ SendCmd(CmdSetMute(b))

\* set_video: self.video = enabled, then the command
HostSetVideo(b) == client' = [ client EXCEPT !.video = b ] /\ SendCmd(CmdSetVideo(b))

\* set_deaf: self.deafened = deafened, then the command
HostSetDeaf(b) == client' = [ client EXCEPT !.deafened = b ] /\ SendCmd(CmdSetDeaf(b))

\* the is_muted getter
IsMuted == client.muted

\* stop(): cancel the token and drop the sender (the host then joins the thread)
HostStop ==
    /\ cmd_tx
    /\ cancel' = TRUE
    /\ cmd_tx' = FALSE
    /\ UNCHANGED << pc, session, last_connect_params, connecting, attempt, delay_secs,
                    cmd_rx, events, video_frames, wire, live, op, n_in >>
    /\ UNCHANGED << vvars, out_log >>

\* poll_video_frame
HostPollVideoFrame ==
    /\ video_frames # << >>
    /\ video_frames' = Tail(video_frames)
    /\ UNCHANGED << pc, session, last_connect_params, connecting, attempt, delay_secs,
                    cmd_rx, cmd_tx, cancel, events, wire, live, op, n_in, out_log >>
    /\ UNCHANGED << vvars, out_log >>

(***************************************************************************)
(* The supervisor (state.rs run_media_loop)                                *)
(***************************************************************************)
Disconnected == pc = "select" /\ session = None
Connected == pc = "select" /\ session # None
HeadIs(t) == cmd_rx # << >> /\ Head(cmd_rx).type = t

\* `break`: the loop ends and run_media_loop returns, dropping its locals
ExitLoop(label) ==
    /\ pc' = "exited"
    /\ session' = None
    /\ live' = DropSession(live, session)
    /\ op' = label
    /\ UNCHANGED << last_connect_params, connecting, attempt, delay_secs, cmd_rx, cmd_tx,
                    cancel, events, video_frames, wire, n_in >>
    /\ UNCHANGED << vvars, out_log >>

\* Disconnected select: cancel.cancelled()
DiscCancelled == Disconnected /\ cancel /\ ExitLoop("cancelled")

\* Disconnected select: cmd_rx.recv() returned None
DiscCmdClosed == Disconnected /\ cmd_rx = << >> /\ ~cmd_tx /\ ExitLoop("closed")

\* Connected select: cancel.cancelled()
ConnCancelled == Connected /\ cancel /\ ExitLoop("cancelled")

\* Connected select: cmd_rx.recv() returned None
ConnCmdClosed == Connected /\ cmd_rx = << >> /\ ~cmd_tx /\ ExitLoop("closed")

\* Disconnected select: Connect, up to the await of establish_session
DiscCmdConnect ==
    /\ Disconnected /\ HeadIs("Connect")
    /\ cmd_rx' = Tail(cmd_rx)
    /\ connecting' = Head(cmd_rx).params
    /\ pc' = "connecting"
    /\ op' = "connect_begin"
    /\ UNCHANGED << session, last_connect_params, attempt, delay_secs, cmd_tx, cancel,
                    events, video_frames, wire, live, n_in >>
    /\ UNCHANGED << vvars, out_log >>

\* Disconnected select: every other command is ignored
DiscCmdIgnored ==
    /\ Disconnected /\ cmd_rx # << >> /\ ~HeadIs("Connect")
    /\ cmd_rx' = Tail(cmd_rx)
    /\ op' = "ignored"
    /\ UNCHANGED << pc, session, last_connect_params, connecting, attempt, delay_secs,
                    cmd_tx, cancel, events, video_frames, wire, live, n_in >>
    /\ UNCHANGED << vvars, out_log >>

\* Connected select: Connect, up to the await of establish_session
ConnCmdConnect ==
    /\ Connected /\ HeadIs("Connect")
    /\ cmd_rx' = Tail(cmd_rx)
    /\ session' = None
    /\ live' = TearDownBeforeConnect(live, session)
    /\ connecting' = Head(cmd_rx).params
    /\ pc' = "connecting"
    /\ op' = "reconnect_begin"
    /\ UNCHANGED << last_connect_params, attempt, delay_secs, cmd_tx, cancel,
                    events, video_frames, wire, n_in >>
    /\ UNCHANGED << vvars, out_log >>

\* establish_session returned to a Connect arm
ConnectDone(fail) ==
    /\ pc = "connecting"
    /\ LET res == EstablishSession(connecting, fail)
           out == ConnectOutcome(res, connecting, events, last_connect_params)
       IN  /\ events' = out.events
           /\ last_connect_params' = out.params
           /\ session' = out.session
           /\ live' = Acquire(live, res.held)
           /\ wire' = WireAfter(wire, res)
           /\ op' = IF res.ok THEN "connect_ok" ELSE "connect_failed"
    /\ pc' = "select"
    /\ UNCHANGED << connecting, attempt, delay_secs, cmd_rx, cmd_tx, cancel,
                    video_frames, n_in >>
    /\ UNCHANGED << vvars, out_log >>

\* Connected select: Disconnect
ConnCmdDisconnect ==
    /\ Connected /\ HeadIs("Disconnect")
    /\ cmd_rx' = Tail(cmd_rx)
    /\ LET out == DisconnectOutcome(events)
       IN  /\ events' = out.events
           /\ last_connect_params' = out.params
           /\ session' = out.session
    /\ live' = DropSession(live, session)
    /\ op' = "disconnect"
    /\ UNCHANGED << pc, connecting, attempt, delay_secs, cmd_tx, cancel,
                    video_frames, wire, n_in >>
    /\ UNCHANGED << vvars, out_log >>

\* Connected select: SetMute
ConnCmdSetMute ==
    /\ Connected /\ HeadIs("SetMute")
    /\ cmd_rx' = Tail(cmd_rx)
    /\ session' = Some(PeriodicCleanup([ Unwrap(session) EXCEPT !.muted = Head(cmd_rx).flag ],
                                     now))
    /\ op' = "set_mute"
    /\ UNCHANGED << pc, last_connect_params, connecting, attempt, delay_secs, cmd_tx,
                    cancel, events, video_frames, wire, live, n_in >>
    /\ UNCHANGED << vvars, out_log >>

\* Connected select: SetVideo
ConnCmdSetVideo(cam_ok, enc_ok) ==
    /\ Connected /\ HeadIs("SetVideo")
    /\ cmd_rx' = Tail(cmd_rx)
    /\ LET r == HandleSetVideo(Unwrap(session), live, events, Head(cmd_rx).flag,
                               cam_ok, enc_ok)
       IN  /\ session' = Some(PeriodicCleanup(r.session, now))
           /\ live' = r.live
           /\ events' = r.events
    /\ op' = IF Head(cmd_rx).flag = Unwrap(session).video THEN "set_video_same"
             ELSE IF ~Head(cmd_rx).flag THEN "set_video_off"
             ELSE IF ~cam_ok THEN "set_video_on_camera_failed"
             ELSE IF ~enc_ok THEN "set_video_on_encoder_failed"
             ELSE "set_video_on_ok"
    /\ UNCHANGED << pc, last_connect_params, connecting, attempt, delay_secs, cmd_tx,
                    cancel, video_frames, wire, n_in >>
    /\ UNCHANGED << vvars, out_log >>

\* Connected select: a captured PCM frame
CapturedPcm(above, held_off, enc, send_ok) ==
    /\ Connected
    /\ LET r == HandleCapturedPcm(Unwrap(session), wire, events, above, held_off, enc, send_ok)
       IN  /\ session' = Some(PeriodicCleanup(r.session, now))
           /\ wire' = r.wire
           /\ out_log' = out_log \o SubSeq(r.wire, Len(wire) + 1, Len(r.wire))
           /\ events' = r.events
    /\ n_in' = n_in + 1
    /\ op' = "pcm"
    /\ UNCHANGED << pc, last_connect_params, connecting, attempt, delay_secs, cmd_rx,
                    cmd_tx, cancel, video_frames, live >>
    /\ UNCHANGED vvars

\* Connected select: a captured camera frame (only while camera_rx is Some)
CameraFrame(enc, fails) ==
    /\ Connected /\ Unwrap(session).camera_rx /\ Unwrap(session).camera_open
    /\ LET r == HandleCameraFrame(Unwrap(session), wire, events, video_frames, enc, fails)
       IN  /\ session' = Some(PeriodicCleanup(r.session, now))
           /\ wire' = r.wire
           /\ out_log' = out_log \o SubSeq(r.wire, Len(wire) + 1, Len(r.wire))
           /\ events' = r.events
           /\ video_frames' = r.video_frames
    /\ n_in' = n_in + 1
    /\ op' = "camera"
    /\ UNCHANGED << pc, last_connect_params, connecting, attempt, delay_secs, cmd_rx,
                    cmd_tx, cancel, live >>
    /\ UNCHANGED vvars

\* Connected select: read_datagram returned Err, up to the first backoff sleep
QuicReadErr ==
    /\ Connected
    /\ n_in' = n_in + 1
    /\ session' = None
    /\ live' = TearDownBeforeReconnect(live, session)
    /\ IF IsSome(last_connect_params)
       THEN /\ attempt' = 1
            /\ delay_secs' = BackoffDelay(1)
            /\ events' = PushEvent(events, EvReconnecting(1, BackoffDelay(1)))
            /\ pc' = "backoff"
       ELSE /\ events' = PushEvent(events, EvDisconnected("quic read error"))
            /\ UNCHANGED << attempt, delay_secs, pc >>
    /\ op' = "quic_error"
    /\ UNCHANGED << last_connect_params, connecting, cmd_rx, cmd_tx, cancel,
                    video_frames, wire >>
    /\ UNCHANGED << vvars, out_log >>

\* reconnect_with_backoff: tokio::time::sleep returned
BackoffElapsed ==
    /\ pc = "backoff"
    /\ pc' = "reestablish"
    /\ op' = "slept"
    /\ UNCHANGED << session, last_connect_params, connecting, attempt, delay_secs,
                    cmd_rx, cmd_tx, cancel, events, video_frames, wire, live, n_in >>
    /\ UNCHANGED << vvars, out_log >>

\* reconnect_with_backoff: establish_session returned to attempt `attempt`
ReconnectAttemptDone(fail) ==
    /\ pc = "reestablish"
    /\ LET res == EstablishSession(Unwrap(last_connect_params), fail)
       IN  /\ live' = Acquire(live, res.held)
           /\ wire' = WireAfter(wire, res)
           /\ IF res.ok
              THEN /\ events' = PushEvent(events, EvConnected)
                   /\ session' = Some(res.session)
                   /\ pc' = "select"
                   /\ op' = "reconnect_ok"
                   /\ UNCHANGED << attempt, delay_secs, last_connect_params >>
              ELSE IF attempt < MAX_RECONNECT_ATTEMPTS
              THEN /\ attempt' = attempt + 1
                   /\ delay_secs' = BackoffDelay(attempt + 1)
                   /\ events' = PushEvent(events,
                                     EvReconnecting(attempt + 1, BackoffDelay(attempt + 1)))
                   /\ pc' = "backoff"
                   /\ op' = "reconnect_retry"
                   /\ UNCHANGED << session, last_connect_params >>
              ELSE /\ events' = PushEvent(events, ReconnectGiveUpEvent)
                   /\ last_connect_params' = ParamsAfterGiveUp
                   /\ pc' = "select"
                   /\ op' = "reconnect_gave_up"
                   /\ UNCHANGED << session, attempt, delay_secs >>
    /\ UNCHANGED << connecting, cmd_rx, cmd_tx, cancel, video_frames, n_in >>
    /\ UNCHANGED << vvars, out_log >>

\* the environment supplies one more input only while the run's budget lasts
MoreInput == n_in < MaxInputs

Next ==
    \/ MoreInput /\ \E p \in ParamSet : HostConnect(p)
    \/ MoreInput /\ HostDisconnect
    \/ MoreInput /\ \E b \in BOOLEAN : HostSetMute(b)
    \/ MoreInput /\ \E b \in BOOLEAN : HostSetVideo(b)
    \/ HostStop
    \/ HostPollVideoFrame
    \/ DiscCancelled
    \/ DiscCmdClosed
    \/ ConnCancelled
    \/ ConnCmdClosed
    \/ DiscCmdConnect
    \/ DiscCmdIgnored
    \/ ConnCmdConnect
    \/ \E fail \in FailSteps \cup { "none" } : ConnectDone(fail)
    \/ ConnCmdDisconnect
    \/ ConnCmdSetMute
    \/ \E cam_ok, enc_ok \in BOOLEAN : ConnCmdSetVideo(cam_ok, enc_ok)
    \/ MoreInput /\ \E above, held_off, send_ok \in BOOLEAN : \E enc \in OpusOutputs :
          CapturedPcm(above, held_off, enc, send_ok)
    \/ MoreInput /\ \E enc \in EncoderOutputs : \E fails \in [ 1..Len(enc.pkts) -> 0..2 ] :
          CameraFrame(enc, fails)
    \/ MoreInput /\ QuicReadErr
    \/ BackoffElapsed
    \/ \E fail \in FailSteps \cup { "none" } : ReconnectAttemptDone(fail)

Spec == Init /\ [][Next]_vars

(***************************************************************************)
(* SpecSeq: the same supervisor, longer runs, a host that only connects    *)
(* and switches video                                                      *)
(***************************************************************************)
MoreSeqInput == n_in < MaxSeqInputs

SeqParams == CHOOSE p \in ParamSet : p.user_id = U32Of(1)

\* one packet per camera frame, small or two chunks long; the first send of a
\* small packet may fail
SeqCameraInputs ==
    { ci \in [ enc : EncoderOutputs, fail : 0..1 ] :
         /\ ci.enc.ok /\ Len(ci.enc.pkts) = 1
         /\ ci.fail = 1 => ci.enc.pkts[1].len = 2 }

NextSeq ==
    \/ MoreSeqInput /\ HostConnect(SeqParams)
    \/ MoreSeqInput /\ \E b \in BOOLEAN : HostSetVideo(b)
    \/ DiscCmdConnect
    \/ DiscCmdIgnored
    \/ ConnCmdConnect
    \/ ConnectDone("none")
    \/ \E enc_ok \in BOOLEAN : ConnCmdSetVideo(TRUE, enc_ok)
    \/ MoreSeqInput /\ \E send_ok \in BOOLEAN : \E enc \in OpusOutputs :
          CapturedPcm(FALSE, FALSE, enc, send_ok)
    \/ MoreSeqInput /\ \E ci \in SeqCameraInputs : CameraFrame(ci.enc, << ci.fail >>)
    \/ MoreSeqInput /\ QuicReadErr
    \/ BackoffElapsed
    \/ ReconnectAttemptDone("none")

SpecSeq == Init /\ [][NextSeq]_vars


(***************************************************************************)
(* SpecMedia: the supervisor with inbound datagrams and a clock            *)
(***************************************************************************)
\* Connected select: SetDeaf
ConnCmdSetDeaf ==
    /\ Connected /\ HeadIs("SetDeaf")
    /\ cmd_rx' = Tail(cmd_rx)
    /\ session' = Some(PeriodicCleanup([ Unwrap(session) EXCEPT !.deafened = Head(cmd_rx).flag ],
                                     now))
    /\ op' = "set_deaf"
    /\ UNCHANGED << pc, last_connect_params, connecting, attempt, delay_secs, cmd_tx,
                    cancel, events, video_frames, wire, live, n_in >>
    /\ UNCHANGED << vvars, out_log >>

\* Connected select: read_datagram returned Ok(data)
QuicReadOk(data, ad, vd, held_off) ==
    /\ Connected
    /\ LET r == ReceiveDatagram(Unwrap(session), events, video_frames, data, ad, vd,
                                held_off, now)
       IN  /\ session' = Some(PeriodicCleanup(r.session, now))
           /\ events' = r.events
           /\ video_frames' = r.video_frames
    /\ rx_last' = Some(data)
    /\ n_in' = n_in + 1
    /\ op' = "datagram"
    /\ UNCHANGED << pc, last_connect_params, connecting, attempt, delay_secs, cmd_rx,
                    cmd_tx, cancel, wire, live, out_log >>
    /\ UNCHANGED << vf_in, vf_out, vf_seq, vf_result, ra_pending, ra_fed, ra_returned, ra_evicted,
                    now, hvars, qvars, pvars, evars, kvars, cvars, avars, lvars >>

\* time passes while the supervisor waits in the Connected select
MediaTick(d) ==
    /\ Connected
    /\ now + d <= MaxMediaTime
    /\ now' = now + d
    /\ op' = "tick"
    /\ UNCHANGED << pc, session, last_connect_params, connecting, attempt, delay_secs,
                    cmd_rx, cmd_tx, cancel, events, video_frames, wire, live, n_in,
                    out_log >>
    /\ UNCHANGED << vf_in, vf_out, vf_seq, vf_result, ra_pending, ra_fed, ra_returned, ra_evicted,
                    xvars >>

\* the other participants of the room
RemoteUsers == { U32Of(2), U32Of(3) }

\* an audio datagram of a remote sender
RemoteAudio(u) ==
    OutFrameEncode(OutFrameAudio(U32Of(7), u, CODEC_OPUS, U32Of(4), U32Of(3840),
                                 << 252, 9 >>))

\* a fragment of a remote sender's picture: the only one (END_OF_FRAME set),
\* or the first of several
RemoteVideo(u, is_end) ==
    OutFrameEncode(OutFrameVideo(U32Of(7), u, U32Of(0), U32Of(0), TRUE, is_end, << 11 >>))

\* a well-formed header of a media type that is neither audio nor video
UnknownType(t) ==
    OutFrameEncode([ header |-> [ OutFrameAudio(U32Of(7), U32Of(2), CODEC_OPUS, U32Of(4),
                                                U32Of(3840), << >>).header
                                  EXCEPT !.media_type = t ],
                     payload |-> << 252, 9 >> ])

\* what read_datagram may return, with what the decoders make of it: too
\* short for a header, an unknown media type, audio, and fragments of a picture
Arrivals ==
    { [ data |-> d, ad |-> "err", vd |-> "err" ] :
         d \in { SubSeq(RemoteAudio(U32Of(2)), 1, HEADER_SIZE - 1), UnknownType(2) } }
    \cup { [ data |-> RemoteAudio(u), ad |-> ad, vd |-> "err" ] :
              u \in RemoteUsers, ad \in OpusDecodeOutcomes \ { "empty" } }
    \cup { [ data |-> RemoteAudio(U32Of(2)), ad |-> "empty", vd |-> "err" ] }
    \cup { [ data |-> RemoteVideo(U32Of(2), is_end), ad |-> "err", vd |-> vd ] :
              is_end \in BOOLEAN, vd \in { "err", "picture" } }
    \cup { [ data |-> RemoteVideo(U32Of(2), TRUE), ad |-> "err", vd |-> "none" ] }
    \* the user_id of a header is whatever the sender wrote: 0 as well
    \cup { [ data |-> RemoteVideo(U32Of(0), TRUE), ad |-> "err", vd |-> "picture" ] }

\* the durations between two wake-ups of the supervisor, in seconds
TickSteps == { 6 }

\* a non-DTX packet from the Opus encoder
VoicePacket == CHOOSE enc \in OpusOutputs : enc.ok /\ ~enc.dtx

\* the host and the devices hand over one input at a time
MoreMediaInput == n_in < MaxMediaInputs /\ cmd_rx = << >> /\ pc = "select"

NextMedia ==
    \/ MoreMediaInput /\ HostConnect(SeqParams)
    \/ MoreMediaInput /\ \E b \in BOOLEAN : HostSetMute(b)
    \/ MoreMediaInput /\ HostSetDeaf(TRUE)
    \/ DiscCmdConnect
    \/ DiscCmdIgnored
    \/ ConnCmdConnect
    \/ ConnectDone("none")
    \/ ConnCmdSetMute
    \/ ConnCmdSetDeaf
    \/ MoreMediaInput /\ \E above, held_off \in BOOLEAN :
          CapturedPcm(above, held_off, VoicePacket, TRUE)
    \/ MoreMediaInput /\ \E a \in Arrivals : QuicReadOk(a.data, a.ad, a.vd, TRUE)
    \/ \E d \in TickSteps : MediaTick(d)

SpecMedia == Init /\ [][NextMedia]_vars

(***************************************************************************)
(* SpecVideo: send_video_fragmented and VideoReassembler on drawn inputs   *)
(***************************************************************************)
\* lengths of the encoded picture: empty, one chunk, the chunk boundary, more
VideoLens == { 0, 1, 1178, 1179, 2356, 3600 }

\* values of the caller's sequence counter: fresh, and two short of the wrap
StartSeqs == { U32Of(0), << W16 - 1, W16 - 2 >> }

VideoInputs ==
    { [ len |-> l, start_seq |-> q, timestamp |-> U32Of(5), is_keyframe |-> k,
        room_id |-> U32Of(7), user_id |-> U32Of(2) ] :
      l \in VideoLens, q \in StartSeqs, k \in BOOLEAN }

InitVideo ==
    /\ InitSession
    /\ vf_in \in VideoInputs
    /\ vf_out = << >>
    /\ vf_seq = vf_in.start_seq
    /\ vf_result = "idle"
    /\ ra_pending = << >>
    /\ ra_fed = {}
    /\ ra_returned = << >>
    /\ ra_evicted = {}
    /\ now = 0
    /\ InitHeaderIdle /\ InitQueueIdle /\ InitSpeakingIdle /\ InitMediaIdle
    /\ InitMls /\ InitProviderIdle /\ InitCameraIdle /\ InitPlaybackIdle

\* one call of send_video_fragmented(conn, room, user, &mut vf_seq, ts, kf, data)
Fragment(failAt) ==
    /\ vf_result = "idle"
    /\ LET res == SendVideoFragmented(vf_in.room_id, vf_in.user_id, vf_seq,
                                      vf_in.timestamp, vf_in.is_keyframe,
                                      VideoData(vf_in.len), failAt)
       IN  /\ vf_out' = res.sent
           /\ vf_seq' = res.seq
           /\ vf_result' = IF res.ok THEN "ok" ELSE "err"
    /\ UNCHANGED << vf_in, ra_pending, ra_fed, ra_returned, ra_evicted, now >>
    /\ UNCHANGED svars
    /\ UNCHANGED xvars

\* the fragments, as (key, sequence, payload), of the entries that are in the
\* map before a call and no longer after it
EvictedFragments(before, after) ==
    { << k, before[k].fragments[j][1], before[k].fragments[j][2] >> :
        << k, j >> \in { p \in (DOMAIN before \ DOMAIN after) \X (1..4) :
                           p[2] <= Len(before[p[1]].fragments) } }

\* the receiver decodes datagram i and hands it to add_fragment
Feed(i) ==
    /\ vf_result # "idle"
    /\ i \in (1..Len(vf_out)) \ ra_fed
    /\ LET f == Unwrap(InFrameDecode(vf_out[i]))
           r == AddFragment(ra_pending, f.header, f.payload, now)
       IN  /\ ra_pending' = r.pending
           /\ ra_returned' = Append(ra_returned, r.frame)
    /\ ra_fed' = ra_fed \cup { i }
    /\ UNCHANGED << vf_in, vf_out, vf_seq, vf_result, ra_evicted, now >>
    /\ UNCHANGED svars
    /\ UNCHANGED xvars

\* a second passes
Tick ==
    /\ now < MaxTime
    /\ now' = now + 1
    /\ UNCHANGED << vf_in, vf_out, vf_seq, vf_result, ra_pending, ra_fed, ra_returned, ra_evicted >>
    /\ UNCHANGED svars
    /\ UNCHANGED xvars

\* evict_stale(REASSEMBLY_STALE_TIMEOUT)
Evict ==
    /\ ra_pending' = EvictStale(ra_pending, REASSEMBLY_STALE_TIMEOUT, now)
    /\ ra_evicted' = ra_evicted \cup EvictedFragments(ra_pending, ra_pending')
    /\ UNCHANGED << vf_in, vf_out, vf_seq, vf_result, ra_fed, ra_returned, now >>
    /\ UNCHANGED svars
    /\ UNCHANGED xvars

NextVideo ==
    \/ \E failAt \in 0..Len(Chunks(VideoData(vf_in.len))) : Fragment(failAt)
    \/ \E i \in 1..Len(vf_out) : Feed(i)
    \/ Tick
    \/ Evict

SpecVideo == InitVideo /\ [][NextVideo]_vars


(***************************************************************************)
(* SpecHeader: MediaHeader::encode and MediaHeader::parse on headers drawn *)
(* from a bounded set                                                      *)
(***************************************************************************)
\* u8 and u32 field values: the ends of the range and values in between;
\* spatial_id and temporal_id also beyond the four bits the wire gives them
HeaderInputs ==
    { [ version |-> v, media_type |-> m, codec_id |-> c, flags |-> f,
        room_id |-> r, user_id |-> U32Of(2), sequence |-> q,
        timestamp |-> << 258, 772 >>, spatial_id |-> sp, temporal_id |-> tp, dtx |-> d ] :
      v \in { 0, 1, 255 }, m \in { 0, 1, 4 }, c \in { 1, 2 }, f \in { 0, 64, 192, 255 },
      r \in { U32Of(7), U32Max }, q \in { U32Of(0), << W16 - 1, W16 - 2 >> },
      sp \in { 0, 9, 15, 16, 255 }, tp \in { 0, 15, 16 }, d \in BOOLEAN }

InitHeader ==
    /\ InitSession /\ InitVideoIdle /\ InitQueueIdle /\ InitSpeakingIdle /\ InitMediaIdle
    /\ InitMls /\ InitProviderIdle /\ InitCameraIdle /\ InitPlaybackIdle
    /\ hdr_in \in HeaderInputs
    /\ hdr_bytes = << >>
    /\ hdr_out = << >>

\* let bytes = hdr_in.encode()
EncodeHeader ==
    /\ hdr_bytes = << >>
    /\ hdr_bytes' = HeaderEncode(hdr_in)
    /\ UNCHANGED << hdr_in, hdr_out >>
    /\ UNCHANGED << svars, vf_in, vf_out, vf_seq, vf_result, ra_pending, ra_fed,
                    ra_returned, ra_evicted, now, qvars, pvars, mvars, evars, kvars, cvars, avars, lvars >>

\* MediaHeader::parse(&bytes)
ParseHeader ==
    /\ hdr_bytes # << >>
    /\ hdr_out = << >>
    /\ hdr_out' = << HeaderParse(hdr_bytes) >>
    /\ UNCHANGED << hdr_in, hdr_bytes >>
    /\ UNCHANGED << svars, vf_in, vf_out, vf_seq, vf_result, ra_pending, ra_fed,
                    ra_returned, ra_evicted, now, qvars, pvars, mvars, evars, kvars, cvars, avars, lvars >>

NextHeader == EncodeHeader \/ ParseHeader

SpecHeader == InitHeader /\ [][NextHeader]_vars

(***************************************************************************)
(* SpecQueue: the supervisor pushes video frames while the host polls      *)
(* (lib.rs push_video_frame, VoxMediaClient::poll_video_frame)             *)
(***************************************************************************)
\* the k-th VideoFrameOutput pushed; its pixels tell it from the others
QueueFrame(k) == [ user_id |-> U32Of(0), origin |-> "camera", rgba |-> << k >> ]

\* push_video_frame(&queue, frame), under the queue's mutex
PushFrame ==
    /\ vq_pushed < MaxPushes
    /\ vq_pushed' = vq_pushed + 1
    /\ video_frames' = PushVideoFrame(video_frames, QueueFrame(vq_pushed + 1))
    /\ UNCHANGED vq_polled
    /\ UNCHANGED << pc, session, last_connect_params, connecting, attempt, delay_secs,
                    cmd_rx, cmd_tx, cancel, events, wire, live, op, n_in, out_log >>
    /\ UNCHANGED << vf_in, vf_out, vf_seq, vf_result, ra_pending, ra_fed,
                    ra_returned, ra_evicted, now, hvars, pvars, mvars, evars, kvars, cvars, avars, lvars >>

\* poll_video_frame, under the queue's mutex: pop_front()? returns None when empty
PollFrame ==
    /\ IF video_frames = << >>
       THEN UNCHANGED << video_frames, vq_polled >>
       ELSE /\ video_frames' = Tail(video_frames)
            /\ vq_polled' = Append(vq_polled, Head(video_frames))
    /\ UNCHANGED vq_pushed
    /\ UNCHANGED << pc, session, last_connect_params, connecting, attempt, delay_secs,
                    cmd_rx, cmd_tx, cancel, events, wire, live, op, n_in, out_log >>
    /\ UNCHANGED << vf_in, vf_out, vf_seq, vf_result, ra_pending, ra_fed,
                    ra_returned, ra_evicted, now, hvars, pvars, mvars, evars, kvars, cvars, avars, lvars >>

NextQueue == PushFrame \/ PollFrame

SpecQueue == Init /\ [][NextQueue]_vars

(***************************************************************************)
(* SpecSpeaking: speaking detection on a millisecond clock                 *)
(***************************************************************************)
\* speaking_states.entry(user_id).or_insert(SpeakingState { .. })
SpeakingEntry(states, u, t) ==
    IF u \in DOMAIN states THEN states[u]
    ELSE [ speaking |-> FALSE, last_above_threshold |-> t - SPEAKING_HOLDOFF - 1 ]

SpeakingPut(states, u, st) ==
    [ k \in DOMAIN states \cup { u } |-> IF k = u THEN st ELSE states[k] ]

\* variant: last_above_threshold is set when speech starts and not refreshed after
UpdateSpeakingStateAtNoRefresh(states, u, level, t) ==
    LET st == SpeakingEntry(states, u, t)
    IN  IF level = "empty" THEN [ states |-> states, emitted |-> << >> ]
        ELSE IF level = "above"
        THEN IF ~st.speaking
             THEN [ states |-> SpeakingPut(states, u, [ speaking |-> TRUE,
                                                         last_above_threshold |-> t ]),
                    emitted |-> << "SpeakingStart" >> ]
             ELSE [ states |-> SpeakingPut(states, u, st), emitted |-> << >> ]
        ELSE IF st.speaking /\ t - st.last_above_threshold >= SPEAKING_HOLDOFF
        THEN [ states |-> SpeakingPut(states, u, [ st EXCEPT !.speaking = FALSE ]),
               emitted |-> << "SpeakingStop" >> ]
        ELSE [ states |-> SpeakingPut(states, u, st), emitted |-> << >> ]

\* update_speaking_state at time t; level is "empty" for an empty buffer and
\* otherwise tells normalized_rms >= SPEAKING_THRESHOLD ("above") from the rest
UpdateSpeakingStateAt(states, u, level, t) ==
    LET st == SpeakingEntry(states, u, t)
    IN  IF level = "empty" THEN [ states |-> states, emitted |-> << >> ]
        ELSE IF level = "above"
        THEN [ states |-> SpeakingPut(states, u, [ speaking |-> TRUE,
                                                    last_above_threshold |-> t ]),
               emitted |-> IF st.speaking THEN << >> ELSE << "SpeakingStart" >> ]
        ELSE IF st.speaking /\ t - st.last_above_threshold >= SPEAKING_HOLDOFF
        THEN [ states |-> SpeakingPut(states, u, [ st EXCEPT !.speaking = FALSE ]),
               emitted |-> << "SpeakingStop" >> ]
        ELSE [ states |-> SpeakingPut(states, u, st), emitted |-> << >> ]

\* the muted branch of the capture arm
MutedCapture(states, u) ==
    IF u \in DOMAIN states /\ states[u].speaking
    THEN [ states |-> SpeakingPut(states, u, [ states[u] EXCEPT !.speaking = FALSE ]),
           emitted |-> << "SpeakingStop" >> ]
    ELSE [ states |-> states, emitted |-> << >> ]

\* the local user and one remote sender
SpLocal == U32Of(1)
SpRemote == U32Of(2)

\* the time between two buffers, in milliseconds: the frame period, or a pause
SpGaps == { 20, 180 }

\* one line of the log: a buffer handled, or an event pushed
SpLine(t, u, kind) == [ t |-> t, user |-> u, kind |-> kind ]

SpLines(t, u, kinds) == [ i \in 1..Len(kinds) |-> SpLine(t, u, kinds[i]) ]

SpUnchanged ==
    /\ UNCHANGED svars
    /\ UNCHANGED << vf_in, vf_out, vf_seq, vf_result, ra_pending, ra_fed, ra_returned, ra_evicted,
                    now, hvars, qvars, mvars, evars, kvars, cvars, avars, lvars >>

\* a buffer of user u reaches update_speaking_state gap ms after the last one:
\* captured PCM of the unmuted local user, or decoded PCM of a remote sender
SpeakingBuffer(u, level, gap) ==
    /\ Len(SelectSeq(sp_log, LAMBDA l : l.kind \in { "above", "below", "empty", "muted" }))
          < MaxSpBuffers
    /\ sp_now' = sp_now + gap
    /\ LET r == UpdateSpeakingStateAt(sp_states, u, level, sp_now + gap)
       IN  /\ sp_states' = r.states
           /\ sp_log' = sp_log \o SpLines(sp_now + gap, u, << level >> \o r.emitted)
    /\ SpUnchanged

\* a captured buffer reaches the capture arm while the mute flag is set
MutedBuffer(gap) ==
    /\ Len(SelectSeq(sp_log, LAMBDA l : l.kind \in { "above", "below", "empty", "muted" }))
          < MaxSpBuffers
    /\ sp_now' = sp_now + gap
    /\ LET r == MutedCapture(sp_states, SpLocal)
       IN  /\ sp_states' = r.states
           /\ sp_log' = sp_log \o SpLines(sp_now + gap, SpLocal, << "muted" >> \o r.emitted)
    /\ SpUnchanged

NextSpeaking ==
    \/ \E level \in { "above", "below", "empty" } : \E gap \in SpGaps :
          SpeakingBuffer(SpLocal, level, gap)
    \/ \E level \in { "above", "below" } : \E gap \in SpGaps :
          SpeakingBuffer(SpRemote, level, gap)
    \/ \E gap \in SpGaps : MutedBuffer(gap)

SpecSpeaking == Init /\ [][NextSpeaking]_vars

(***************************************************************************)
(* vox-mls: the calls of the host on an engine                             *)
(***************************************************************************)
\* an MLS call leaves the media engine and the harnesses alone
MlsOthers ==
    /\ UNCHANGED svars
    /\ UNCHANGED << vf_in, vf_out, vf_seq, vf_result, ra_pending, ra_fed, ra_returned, ra_evicted,
                    now, hvars, qvars, pvars, mvars, kvars, cvars, avars, lvars >>

\* the randomness a call draws from OsRng
Seed == mls_ops + 1

\* the previous engine is dropped and MlsEngine::new runs on the same path
MlsReopen(e) ==
    LET found == IF DbPath(e) = ":memory:" THEN BlankDb ELSE stores[e]
        r == EngineNew(DbPath(e), found, Seed)
    IN  /\ engines' = [ engines EXCEPT ![e] = r.engine ]
        /\ stores' = [ stores EXCEPT ![e] = r.db ]
        /\ mls_ret' = Returned("new", e, r.ok, None)
        /\ mls_ops' = mls_ops + 1
        /\ UNCHANGED << published, welcomes, inbox, exports >>
        /\ MlsOthers

\* MlsEngine::generate_identity
MlsGenerateIdentity(e, user_id, device_id) ==
    /\ engines[e] # None
    /\ LET engine == Unwrap(engines[e])
           made == GenerateIdentity(stores[e], user_id, device_id, Seed)
           saved == SaveIdentity(engine.provider, made.db, user_id, device_id,
                                 ToJson(made.credential_with_key),
                                 ToJson(made.signature_keys), Seed)
       IN  IF engine.signature_keys # None
           THEN /\ mls_ret' = Returned("generate_identity", e, FALSE, None)
                /\ UNCHANGED << engines, stores >>
           ELSE IF ~saved.ok
           THEN /\ mls_ret' = Returned("generate_identity", e, FALSE, None)
                /\ stores' = [ stores EXCEPT ![e] = made.db ]
                /\ UNCHANGED engines
           ELSE /\ mls_ret' = Returned("generate_identity", e, TRUE,
                                       Some(made.signature_keys.public))
                /\ stores' = [ stores EXCEPT ![e] = saved.value ]
                /\ engines' = [ engines EXCEPT ![e] = Some([ engine EXCEPT
                       !.credential_with_key = Some(made.credential_with_key),
                       !.signature_keys = Some(made.signature_keys) ]) ]
    /\ mls_ops' = mls_ops + 1
    /\ UNCHANGED << published, welcomes, inbox, exports >>
    /\ MlsOthers

\* MlsEngine::generate_key_package; the host uploads what it returns
MlsGenerateKeyPackage(e) ==
    /\ engines[e] # None
    /\ LET engine == Unwrap(engines[e])
       IN  IF engine.credential_with_key = None \/ engine.signature_keys = None
           THEN /\ mls_ret' = Returned("generate_key_package", e, FALSE, None)
                /\ UNCHANGED << stores, published >>
           ELSE LET made == GenerateKeyPackage(stores[e],
                                Unwrap(engine.credential_with_key),
                                Unwrap(engine.signature_keys), Seed)
                    bytes == TlsSerialize(made.key_package)
                IN  /\ mls_ret' = Returned("generate_key_package", e, TRUE, Some(bytes))
                    /\ stores' = [ stores EXCEPT ![e] = made.db ]
                    /\ published' = published \cup { bytes }
    /\ mls_ops' = mls_ops + 1
    /\ UNCHANGED << engines, welcomes, inbox, exports >>
    /\ MlsOthers

\* the key packages of a byte list, when every one of them deserializes
KeyPackagesIn(member_key_packages) ==
    IF \A i \in 1..Len(member_key_packages) :
           TlsDeserialize(member_key_packages[i], "KeyPackage").ok
    THEN Ok([ i \in 1..Len(member_key_packages) |->
                  TlsDeserialize(member_key_packages[i], "KeyPackage").value ])
    ELSE Err("Invalid key package")

\* the serialized welcome and commit a call hands back
WelcomeAndCommit(r) ==
    [ welcome |-> IF r.welcome = None THEN None
                  ELSE Some(TlsSerialize(Unwrap(r.welcome))),
      commit |-> IF r.commit = None THEN None
                 ELSE Some(TlsSerialize(Unwrap(r.commit))) ]

\* an entry of an inbox: the bytes, with who sent them and what they carry
Entry(bytes, from, group_id, plaintext) ==
    [ bytes |-> bytes, from |-> from, group_id |-> group_id, plaintext |-> plaintext ]

\* MlsEngine::create_group; the host passes the welcome on
MlsCreateGroup(e, group_id, member_key_packages, replace) ==
    /\ engines[e] # None
    /\ LET engine == Unwrap(engines[e])
           kp_ins == KeyPackagesIn(member_key_packages)
       IN  IF engine.credential_with_key = None \/ engine.signature_keys = None
           THEN /\ mls_ret' = Raised("create_group", e, "RuntimeError",
                                     "Identity not initialized")
                /\ UNCHANGED << stores, welcomes >>
           ELSE IF ~kp_ins.ok
           THEN /\ mls_ret' = Raised("create_group", e, "ValueError", kp_ins.error)
                /\ UNCHANGED << stores, welcomes >>
           ELSE LET r == CreateGroup(stores[e], Unwrap(engine.signature_keys),
                                     Unwrap(engine.credential_with_key), group_id,
                                     kp_ins.value, Seed, replace)
                IN  /\ stores' = [ stores EXCEPT ![e] = r.db ]
                    /\ mls_ret' = IF r.ok
                                  THEN Returned("create_group", e, TRUE,
                                                Some(WelcomeAndCommit(r)))
                                  ELSE Raised("create_group", e, "RuntimeError", r.error)
                    /\ welcomes' = IF r.ok /\ r.welcome # None
                                   THEN welcomes \cup { Unwrap(WelcomeAndCommit(r).welcome) }
                                   ELSE welcomes
    /\ mls_ops' = mls_ops + 1
    /\ UNCHANGED << engines, published, inbox, exports >>
    /\ MlsOthers

\* MlsEngine::join_group
MlsJoinGroup(e, welcome) ==
    /\ engines[e] # None
    /\ LET r == JoinGroup(stores[e], welcome)
       IN  /\ stores' = [ stores EXCEPT ![e] = r.db ]
           /\ mls_ret' = Returned("join_group", e, r.ok,
                                  IF r.ok THEN Some(r.group_id) ELSE None)
    /\ mls_ops' = mls_ops + 1
    /\ UNCHANGED << engines, published, welcomes, inbox, exports >>
    /\ MlsOthers

\* MlsEngine::add_member; the host passes the welcome on and sends the commit
\* to the members the group had
MlsAddMember(e, group_id, key_package) ==
    /\ engines[e] # None
    /\ LET engine == Unwrap(engines[e])
           loaded == GroupLoad(stores[e], group_id)
       IN  IF engine.signature_keys = None \/ loaded = None
           THEN /\ mls_ret' = Returned("add_member", e, FALSE, None)
                /\ UNCHANGED << stores, welcomes, inbox >>
           ELSE LET g == Unwrap(loaded)
                    r == AddMember(stores[e], g, key_package, Seed)
                IN  /\ stores' = [ stores EXCEPT ![e] = r.db ]
                    /\ mls_ret' = Returned("add_member", e, r.ok,
                                           IF r.ok THEN Some(WelcomeAndCommit(r)) ELSE None)
                    /\ welcomes' = IF r.ok
                                   THEN welcomes \cup { Unwrap(WelcomeAndCommit(r).welcome) }
                                   ELSE welcomes
                    /\ inbox' = IF r.ok
                                THEN Deliver(Recipients(g.members \ { g.own }, e),
                                             Entry(Unwrap(WelcomeAndCommit(r).commit),
                                                   e, group_id, None))
                                ELSE inbox
    /\ mls_ops' = mls_ops + 1
    /\ UNCHANGED << engines, published, exports >>
    /\ MlsOthers

\* MlsEngine::encrypt; the host sends the ciphertext to the other members
MlsEncrypt(e, group_id, plaintext) ==
    /\ engines[e] # None
    /\ LET engine == Unwrap(engines[e])
           loaded == GroupLoad(stores[e], group_id)
       IN  IF engine.signature_keys = None \/ loaded = None
           THEN /\ mls_ret' = Returned("encrypt", e, FALSE, None)
                /\ UNCHANGED << stores, inbox >>
           ELSE LET g == Unwrap(loaded)
                    r == GroupEncrypt(stores[e], g, plaintext)
                IN  /\ stores' = [ stores EXCEPT ![e] = r.db ]
                    /\ mls_ret' = Returned("encrypt", e, r.ok,
                                           IF r.ok THEN Some(r.bytes) ELSE None)
                    /\ inbox' = IF r.ok
                                THEN Deliver(Recipients(g.members \ { g.own }, e),
                                             Entry(r.bytes, e, group_id, Some(plaintext)))
                                ELSE inbox
    /\ mls_ops' = mls_ops + 1
    /\ UNCHANGED << engines, published, welcomes, exports >>
    /\ MlsOthers

\* MlsEngine::process_message on a group and a message
ProcessMessage(db, group_id, message) ==
    LET loaded == GroupLoad(db, group_id)
    IN  IF loaded = None
        THEN [ ok |-> FALSE, error |-> "No group", db |-> db,
               result |-> ProcessedResult("", None) ]
        ELSE GroupProcessMessage(db, Unwrap(loaded), message)

\* decrypt that undoes what process_message did when it has no plaintext
DecryptRolledBack(db, group_id, ciphertext) ==
    LET r == ProcessMessage(db, group_id, ciphertext)
    IN  IF r.ok /\ r.result.data = None
        THEN [ r EXCEPT !.ok = FALSE, !.db = db,
                        !.error = "Message is not an application message" ]
        ELSE r

\* MlsEngine::decrypt: process_message, then the plaintext or an error
Decrypt(db, group_id, ciphertext) ==
    LET r == ProcessMessage(db, group_id, ciphertext)
    IN  IF r.ok /\ r.result.data = None
        THEN [ r EXCEPT !.ok = FALSE, !.error = "Message is not an application message" ]
        ELSE r

\* the exception a failed process_message or decrypt raises
ProcessError(r) ==
    IF r.error = "Message is not an application message" THEN "ValueError"
    ELSE IF r.error = "No group" THEN "KeyError"
    ELSE "RuntimeError"

\* the host hands the oldest message of its inbox to process_message or decrypt
MlsProcessMessage(e, call) ==
    /\ engines[e] # None
    /\ inbox[e] # << >>
    /\ LET entry == Head(inbox[e])
           r == IF call = "decrypt"
                THEN Decrypt(stores[e], entry.group_id, entry.bytes)
                ELSE ProcessMessage(stores[e], entry.group_id, entry.bytes)
       IN  /\ stores' = [ stores EXCEPT ![e] = r.db ]
           /\ mls_ret' = IF ~r.ok THEN Raised(call, e, ProcessError(r), r.error)
                          ELSE IF call = "decrypt"
                          THEN Returned(call, e, TRUE, r.result.data)
                          ELSE Returned(call, e, TRUE, Some(r.result))
    /\ inbox' = [ inbox EXCEPT ![e] = Tail(@) ]
    /\ mls_ops' = mls_ops + 1
    /\ UNCHANGED << engines, published, welcomes, exports >>
    /\ MlsOthers

\* what an export is remembered by: the bytes, and what the engine answered
\* to identity_key, list_groups and group_exists when it made them
Exported(kind, e, data) ==
    [ kind |-> kind, by |-> e, data |-> data,
      identity_key |-> IdentityKey(Unwrap(engines[e])),
      list_groups |-> ListGroups(stores[e]),
      groups |-> stores[e].groups ]

\* MlsEngine::export_state
MlsExportState(e) ==
    /\ engines[e] # None
    /\ LET bytes == ExportDb(stores[e])
       IN  /\ mls_ret' = Returned("export_state", e, TRUE, Some(bytes))
           /\ exports' = exports \cup { Exported("state", e, bytes) }
    /\ mls_ops' = mls_ops + 1
    /\ UNCHANGED << engines, stores, published, welcomes, inbox >>
    /\ MlsOthers

\* MlsEngine::import_state
MlsImportState(e, data, fault) ==
    /\ engines[e] # None
    /\ LET engine == Unwrap(engines[e])
           imported == ImportDb(engine.provider, stores[e], data, fault, Seed)
           swapped == [ engine EXCEPT !.provider = imported.provider ]
           loaded == LoadIdentity(imported.provider, imported.db)
           decoded == DecodeIdentity(Unwrap(loaded.value))
       IN  /\ stores' = [ stores EXCEPT ![e] = imported.db ]
           /\ IF ~imported.ok
              THEN /\ UNCHANGED engines
                   /\ mls_ret' = Returned("import_state", e, FALSE, None)
              ELSE IF ~loaded.ok \/ loaded.value = None \/ ~decoded.ok
              THEN /\ engines' = [ engines EXCEPT ![e] = Some(swapped) ]
                   /\ mls_ret' = Returned("import_state", e, FALSE, None)
              ELSE /\ engines' = [ engines EXCEPT ![e] = Some([ swapped EXCEPT
                          !.credential_with_key = Some(decoded.value.credential_with_key),
                          !.signature_keys = Some(decoded.value.signature_keys) ]) ]
                   /\ mls_ret' = Returned("import_state", e, TRUE, Some(data))
    /\ mls_ops' = mls_ops + 1
    /\ UNCHANGED << published, welcomes, inbox, exports >>
    /\ MlsOthers

\* MlsEngine::export_identity
MlsExportIdentity(e) ==
    /\ engines[e] # None
    /\ LET engine == Unwrap(engines[e])
       IN  IF engine.signature_keys = None \/ engine.credential_with_key = None
           THEN /\ mls_ret' = Returned("export_identity", e, FALSE, None)
                /\ UNCHANGED exports
           ELSE LET bytes == ToJson([ type |-> "Identity",
                        signature_keys |-> Unwrap(engine.signature_keys),
                        credential_with_key |-> Unwrap(engine.credential_with_key) ])
                IN  /\ mls_ret' = Returned("export_identity", e, TRUE, Some(bytes))
                    /\ exports' = exports \cup { Exported("identity", e, bytes) }
    /\ mls_ops' = mls_ops + 1
    /\ UNCHANGED << engines, stores, published, welcomes, inbox >>
    /\ MlsOthers

\* MlsEngine::import_identity
MlsImportIdentity(e, data, user_id, device_id) ==
    /\ engines[e] # None
    /\ LET engine == Unwrap(engines[e])
           payload == FromJson(data, "Identity")
           sig == payload.value.signature_keys
           cwk == payload.value.credential_with_key
           stored == [ stores[e] EXCEPT !.signature_keys = @ \cup { sig } ]
           saved == SaveIdentity(engine.provider, stored, user_id, device_id,
                                 ToJson(cwk), ToJson(sig), Seed)
       IN  IF ~payload.ok
           THEN /\ mls_ret' = Returned("import_identity", e, FALSE, None)
                /\ UNCHANGED << engines, stores >>
           ELSE IF ~saved.ok
           THEN /\ mls_ret' = Returned("import_identity", e, FALSE, None)
                /\ stores' = [ stores EXCEPT ![e] = stored ]
                /\ UNCHANGED engines
           ELSE /\ mls_ret' = Returned("import_identity", e, TRUE, None)
                /\ stores' = [ stores EXCEPT ![e] = saved.value ]
                /\ engines' = [ engines EXCEPT ![e] = Some([ engine EXCEPT
                       !.signature_keys = Some(sig),
                       !.credential_with_key = Some(cwk) ]) ]
    /\ mls_ops' = mls_ops + 1
    /\ UNCHANGED << published, welcomes, inbox, exports >>
    /\ MlsOthers

(***************************************************************************)
(* SpecProvider: VoxProvider on one database file, opened with and without *)
(* an encryption key                                                       *)
(***************************************************************************)
\* the keys a host may configure
EncryptionKeys == { None, Some("K1"), Some("K2") }
\* the nonces OsRng may produce
Nonces == { 1, 2 }
\* the key pairs handed to save_identity, as serde_json::to_string writes them
KeyPairTexts == { ToJson(NewSignatureKeyPair(s)) : s \in { 1, 2 } }

PvOthers ==
    /\ UNCHANGED svars
    /\ UNCHANGED << vf_in, vf_out, vf_seq, vf_result, ra_pending, ra_fed, ra_returned, ra_evicted,
                    now, hvars, qvars, pvars, mvars, evars, cvars, avars, lvars >>


\* the provider is dropped and VoxProvider::new opens the file with a key
PvOpen(encryption_key) ==
    LET opened == ProviderNew("vault.db", pv_db, encryption_key, pv.connection + 1)
    IN  /\ pv.connection < MaxOpens
        /\ opened.ok
        /\ pv' = opened.value.provider
        /\ pv_db' = opened.value.db
        /\ pv_ret' = None
        /\ UNCHANGED pv_saved
        /\ PvOthers

\* save_identity with a key pair and the nonce the call drew
PvSaveIdentity(signature_key_pair_json, nonce) ==
    LET cwk_json == ToJson([ type |-> "CredentialWithKey",
                             credential |-> IdentityOf(U64Of(1), "phone"),
                             signature_key |-> signature_key_pair_json[2].public ])
        saved == SaveIdentity(pv, pv_db, U64Of(1), "phone", cwk_json,
                              signature_key_pair_json, nonce)
    IN  /\ saved.ok
        /\ pv_db' = saved.value
        /\ pv_saved' = Some([ signature_key_pair |-> signature_key_pair_json,
                              encryption_key |-> pv.encryption_key ])
        /\ pv_ret' = None
        /\ UNCHANGED pv
        /\ PvOthers

\* load_identity
PvLoadIdentity ==
    /\ pv_ret' = Some(LoadIdentity(pv, pv_db))
    /\ pv_ret' # pv_ret
    /\ UNCHANGED << pv, pv_db, pv_saved >>
    /\ PvOthers

NextProvider ==
    \/ \E k \in EncryptionKeys : PvOpen(k)
    \/ \E s \in KeyPairTexts, n \in Nonces : PvSaveIdentity(s, n)
    \/ PvLoadIdentity

SpecProvider == Init /\ [][NextProvider]_vars

(***************************************************************************)
(* SpecMls: three engines and the hosts that call them                     *)
(***************************************************************************)
GroupIds == { "room:1" }

\* "hi" and a single zero byte
Plaintexts == { << 104, 105 >>, << 0 >> }

\* bytes that are no serialization of anything
JunkBytes == << "junk" >>

\* a key package whose signature is not the one of its leaf key
Tampered(key_package) ==
    TlsSerialize([ key_package[2] EXCEPT !.signature = << "public", 0 >> ])

\* the member lists a host may hand to create_group
MemberLists ==
    { << >>, << JunkBytes >> }
        \cup { << kp >> : kp \in published }
        \cup { << Tampered(kp) >> : kp \in published }
        \cup { << kp, Tampered(kp) >> : kp \in published }

\* a database written by another build of the storage layer
ForeignDb == [ BlankDb EXCEPT !.schema = "foreign" ]

\* a database whose identity row was saved by a provider holding a key
SealedDb ==
    LET made == GenerateIdentity(RunMigrations(BlankDb).value, U64Of(9), "vault", 0)
    IN  SaveIdentity([ db_path |-> ":memory:", connection |-> 0,
                       encryption_key |-> Some("K1") ],
                     made.db, U64Of(9), "vault",
                     ToJson(made.credential_with_key),
                     ToJson(made.signature_keys), 1).value

\* backups that no engine of the model exported
ForeignImages == { JunkBytes, ExportDb(ForeignDb), ExportDb(SealedDb) }

\* the bytes a host may hand to import_state
Images == ForeignImages \cup { x.data : x \in { y \in exports : y.kind = "state" } }

\* the bytes a host may hand to import_identity
IdentityBlobs == { JunkBytes } \cup { x.data : x \in { y \in exports : y.kind = "identity" } }

MoreMlsOps == mls_ops < MaxMlsOps

NextMls ==
    \/ MoreMlsOps /\ MlsReopen("carol")
    \/ MoreMlsOps /\ \E e \in Engines : MlsGenerateIdentity(e, UserId(e), DeviceId(e))
    \/ MoreMlsOps /\ MlsGenerateKeyPackage("bob")
    \/ MoreMlsOps /\ \E g \in GroupIds, l \in MemberLists, replace \in BOOLEAN :
           MlsCreateGroup("alice", g, l, replace)
    \/ MoreMlsOps /\ \E w \in welcomes : MlsJoinGroup("bob", w)
    \/ MoreMlsOps /\ \E g \in GroupIds, kp \in published : MlsAddMember("alice", g, kp)
    \/ MoreMlsOps /\ \E e \in { "alice", "carol" } : MlsExportState(e)
    \/ MoreMlsOps /\ \E data \in Images, fault \in ImportFaults :
           MlsImportState("carol", data, fault)
    \/ MoreMlsOps /\ \E data \in Images, fault \in { "none", "migrations" } :
           MlsImportState("bob", data, fault)
    \/ MoreMlsOps /\ MlsExportIdentity("alice")
    \/ MoreMlsOps /\ \E data \in IdentityBlobs :
           MlsImportIdentity("carol", data, UserId("carol"), DeviceId("carol"))

SpecMls == Init /\ [][NextMls]_vars

(***************************************************************************)
(* SpecRoundTrip: alice opens a group with bob and they exchange messages  *)
(***************************************************************************)
MoreRoundTripOps == mls_ops < MaxRoundTripOps

NextRoundTrip ==
    \/ MoreRoundTripOps /\ \E e \in { "alice", "bob" } :
           MlsGenerateIdentity(e, UserId(e), DeviceId(e))
    \/ MoreRoundTripOps /\ MlsGenerateKeyPackage("bob")
    \/ MoreRoundTripOps /\ \E g \in GroupIds, kp \in published :
           /\ ~GroupExists(stores["alice"], g)
           /\ MlsCreateGroup("alice", g, << kp >>, FALSE)
    \/ MoreRoundTripOps /\ \E w \in welcomes : MlsJoinGroup("bob", w)
    \/ MoreRoundTripOps /\ \E e \in { "alice", "bob" }, g \in GroupIds, p \in Plaintexts :
           MlsEncrypt(e, g, p)
    \/ MoreRoundTripOps /\ \E e \in { "alice", "bob" } :
           /\ inbox[e] # << >>
           /\ GroupExists(stores[e], Head(inbox[e]).group_id)
           /\ MlsProcessMessage(e, "process_message")

SpecRoundTrip == Init /\ [][NextRoundTrip]_vars

(***************************************************************************)
(* SpecProcess: alice's group grows while bob, a member, hands what        *)
(* arrives to process_message and decrypt                                  *)
(***************************************************************************)
\* a proposal of the member whose group g is, as MlsGroup::propose_self_update
\* of another client of the same member frames it
PeerProposal(g) == TlsSerialize(MlsMessage("proposal", g, << "update", g.own >>))

\* the network hands bob a proposal of alice, or bytes that are no message
PeerSends(from, to, group_id, what) ==
    /\ engines[from] # None /\ GroupExists(stores[from], group_id)
    /\ \A i \in 1..Len(inbox[to]) : inbox[to][i].from # "network"
    /\ LET g == Unwrap(GroupLoad(stores[from], group_id))
           bytes == IF what = "proposal" THEN PeerProposal(g) ELSE JunkBytes
       IN  inbox' = Deliver({ to }, Entry(bytes, "network", group_id, None))
    /\ UNCHANGED << engines, stores, mls_ret, published, welcomes, exports, mls_ops >>
    /\ MlsOthers

MoreProcessOps == mls_ops < MaxProcessOps

\* an engine that has no identity yet
NoIdentity(e) == Unwrap(engines[e]).credential_with_key = None

NextProcess ==
    \/ MoreProcessOps /\ \E e \in Engines :
           NoIdentity(e) /\ MlsGenerateIdentity(e, UserId(e), DeviceId(e))
    \/ MoreProcessOps /\ \E e \in { "bob", "carol" } :
           /\ ~NoIdentity(e)
           /\ \A kp \in published :
                  kp[2].credential # Unwrap(Unwrap(engines[e]).credential_with_key).credential
           /\ MlsGenerateKeyPackage(e)
    \/ MoreProcessOps /\ \E g \in GroupIds, kp \in published :
           /\ ~GroupExists(stores["alice"], g)
           /\ MlsCreateGroup("alice", g, << kp >>, FALSE)
    \/ MoreProcessOps /\ \E w \in welcomes :
           /\ \A g \in GroupIds : ~GroupExists(stores["bob"], g)
           /\ MlsJoinGroup("bob", w)
    \/ MoreProcessOps /\ \E g \in GroupIds, kp \in published :
           GroupExists(stores["alice"], g) /\ MlsAddMember("alice", g, kp)
    \/ MoreProcessOps /\ \E g \in GroupIds :
           GroupExists(stores["alice"], g) /\ MlsEncrypt("alice", g, << 104, 105 >>)
    \/ \E g \in GroupIds, what \in { "proposal", "junk" } :
           PeerSends("alice", "bob", g, what)
    \/ MoreProcessOps /\ \E call \in { "process_message", "decrypt" } :
           /\ inbox["bob"] # << >>
           /\ GroupExists(stores["bob"], Head(inbox["bob"]).group_id)
           /\ MlsProcessMessage("bob", call)

SpecProcess == Init /\ [][NextProcess]_vars

(***************************************************************************)
(* SpecCamera: the camera threads against the supervisor that switches     *)
(* video and takes the frames                                              *)
(***************************************************************************)
CamOthers ==
    /\ UNCHANGED svars
    /\ UNCHANGED << vf_in, vf_out, vf_seq, vf_result, ra_pending, ra_fed, ra_returned, ra_evicted,
                    now, hvars, qvars, pvars, mvars, evars, kvars, avars, lvars >>

\* whether the receiver of worker w's channel is still held by the session
ReceiverHeld(w) == w = Len(cam_workers) /\ cam_session.camera_rx

\* camera_thread up to the loop: Camera::new and open_stream
CamThreadOpen(w, ok) ==
    /\ cam_workers[w].pc = "open"
    /\ cam_workers' = [ cam_workers EXCEPT ![w].pc = IF ok THEN "loop" ELSE "exited" ]
    /\ UNCHANGED << cam_session, cam_chan, cam_received, cam_dropped, cam_captured >>
    /\ CamOthers

\* while !stop.load(Relaxed); after the loop the stream is stopped
CamThreadLoop(w) ==
    /\ cam_workers[w].pc = "loop"
    /\ cam_workers' = [ cam_workers EXCEPT
                          ![w].pc = IF cam_workers[w].stop THEN "exited" ELSE "frame" ]
    /\ UNCHANGED << cam_session, cam_chan, cam_received, cam_dropped, cam_captured >>
    /\ CamOthers

\* the body of the loop: camera.frame() and decode_image, which may fail, then
\* try_send of the captured frame
CamThreadFrame(w, got) ==
    /\ cam_workers[w].pc = "frame"
    /\ cam_workers' = [ cam_workers EXCEPT ![w].pc = "loop" ]
    /\ IF got
       THEN LET frame == [ worker |-> w, n |-> cam_captured[w] + 1 ]
                sent == TrySend(cam_chan, ~ReceiverHeld(w), frame)
            IN  /\ cam_captured' = [ cam_captured EXCEPT ![w] = @ + 1 ]
                /\ cam_chan' = sent.chan
                /\ cam_dropped' = IF sent.result = "Ok" THEN cam_dropped
                                  ELSE Append(cam_dropped,
                                              [ frame |-> frame, result |-> sent.result,
                                                queued |-> cam_chan ])
       ELSE UNCHANGED << cam_chan, cam_dropped, cam_captured >>
    /\ UNCHANGED << cam_session, cam_received >>
    /\ CamOthers

\* the resources a session holds, counted from nothing
CamLive(s) == Acquire(NoneAlive, SessionResources(s))

\* the supervisor handles SetVideo(enabled): handle_set_video with the thread
\* it spawns and the stop handle and the receiver it drops
CamSetVideo(enabled, enc_ok) ==
    LET r == HandleSetVideo(cam_session, CamLive(cam_session), << >>, enabled, TRUE, enc_ok)
        spawned == enabled /\ ~cam_session.video
        started == IF spawned THEN StartCameraCapture(cam_workers) ELSE cam_workers
        dropped == (spawned \/ cam_session.camera_stop) /\ ~r.session.camera_stop
    IN  /\ spawned => Len(cam_workers) < MaxCamWorkers
        /\ cam_session' = r.session
        /\ cam_workers' = IF dropped THEN DropStopHandle(started, Len(started))
                          ELSE started
        /\ cam_captured' = IF spawned THEN Append(cam_captured, 0) ELSE cam_captured
        /\ cam_chan' = IF spawned \/ ~r.session.camera_rx THEN << >> ELSE cam_chan
        /\ UNCHANGED << cam_received, cam_dropped >>
        /\ CamOthers

\* the session is dropped (Disconnect, a read error, a further Connect) and the
\* next one is established
CamDropSession ==
    /\ cam_session' = NewSession(cam_session)
    /\ cam_workers' = IF cam_session.camera_stop
                      THEN DropStopHandle(cam_workers, Len(cam_workers))
                      ELSE cam_workers
    /\ cam_chan' = << >>
    /\ UNCHANGED << cam_received, cam_dropped, cam_captured >>
    /\ CamOthers

\* the select arm of the supervisor that takes a frame from camera_rx
CamRecv ==
    /\ cam_session.camera_rx /\ cam_chan # << >>
    /\ cam_received' = Append(cam_received, Head(cam_chan))
    /\ cam_chan' = Tail(cam_chan)
    /\ UNCHANGED << cam_session, cam_workers, cam_dropped, cam_captured >>
    /\ CamOthers

\* frames captured so far, by all workers
RECURSIVE SumSeq(_)
SumSeq(q) == IF q = << >> THEN 0 ELSE Head(q) + SumSeq(Tail(q))

NextCamera ==
    \/ \E w \in 1..Len(cam_workers), ok \in BOOLEAN : CamThreadOpen(w, ok)
    \/ \E w \in 1..Len(cam_workers) : CamThreadLoop(w)
    \/ \E w \in 1..Len(cam_workers), got \in BOOLEAN :
           /\ got => SumSeq(cam_captured) < MaxCamFrames
           /\ CamThreadFrame(w, got)
    \/ \E enabled \in BOOLEAN, enc_ok \in BOOLEAN : CamSetVideo(enabled, enc_ok)
    \/ CamDropSession
    \/ CamRecv

SpecCamera == Init /\ [][NextCamera]_vars

(***************************************************************************)
(* SpecPlayback: the playback callback of a 48 kHz device against the      *)
(* supervisor that sends decoded frames                                    *)
(***************************************************************************)
PbOthers ==
    /\ UNCHANGED svars
    /\ UNCHANGED << vf_in, vf_out, vf_seq, vf_result, ra_pending, ra_fed, ra_returned, ra_evicted,
                    now, hvars, qvars, pvars, mvars, evars, kvars, cvars, lvars >>

\* frames of equal samples: 20 ms of sound, 20 ms of digital silence, and what
\* piles up while the device stalls for more than a second
PbFrames ==
    { << [ v |-> 1000, n |-> 960 ] >>, << [ v |-> 0, n |-> 960 ] >>,
      << [ v |-> -7, n |-> 60000 ] >>,
      << [ v |-> 1000, n |-> 30000 ], [ v |-> 5, n |-> 30000 ] >> }

\* the slice lengths the device asks for
PbDataLens == { 512, 65536 }

\* start_playback on a device that takes 48 kHz with one or two channels
PbStart(dev_channels) ==
    /\ pb_channels = 0
    /\ pb_channels' = dev_channels
    /\ UNCHANGED << pb_rx, pb_buf, pb_out, pb_calls >>
    /\ PbOthers

\* playback_tx.send(frame) by the supervisor
PbSend(frame) ==
    /\ pb_channels > 0
    /\ pb_rx' = Append(pb_rx, frame)
    /\ pb_calls' = pb_calls + 1
    /\ UNCHANGED << pb_channels, pb_buf, pb_out >>
    /\ PbOthers

\* the device calls the output callback
PbCallback(data_len) ==
    /\ pb_channels > 0
    /\ LET r == PlaybackCallback(pb_buf, pb_rx, TARGET_RATE, pb_channels, data_len)
       IN  /\ pb_buf' = r.buf
           /\ pb_out' = r.data
    /\ pb_rx' = << >>
    /\ pb_calls' = pb_calls + 1
    /\ UNCHANGED pb_channels
    /\ PbOthers

MorePbSteps == pb_calls < MaxPbSteps

NextPlayback ==
    \/ \E dev_channels \in { 1, 2 } : PbStart(dev_channels)
    \/ MorePbSteps /\ \E frame \in PbFrames : PbSend(frame)
    \/ MorePbSteps /\ \E data_len \in PbDataLens : PbCallback(data_len)

SpecPlayback == Init /\ [][NextPlayback]_vars

(***************************************************************************)
(* SpecRestart: the supervisor with a host that calls start() again after  *)
(* stop(); the event queue and the video queue outlive the runtime         *)
(***************************************************************************)
\* start() after stop(): stop() took the token and joined the thread, so the
\* old loop has returned; a new token, a new channel and a new run_media_loop
\* whose locals start as None, on the queues the client was constructed with
HostStart ==
    /\ ~cmd_tx /\ cancel /\ pc = "exited"
    /\ cancel' = FALSE
    /\ cmd_tx' = TRUE
    /\ cmd_rx' = << >>
    /\ pc' = "select"
    /\ session' = None
    /\ last_connect_params' = None
    /\ op' = "start"
    /\ UNCHANGED << connecting, attempt, delay_secs, events, video_frames, wire, live,
                    n_in >>
    /\ UNCHANGED << vvars, out_log >>

NextRestart ==
    \/ Next
    \/ HostStart

SpecRestart == Init /\ [][NextRestart]_vars

(***************************************************************************)
(* Properties                                                              *)
(***************************************************************************)
Last(q) == q[Len(q)]
Suffix(q, k) == SubSeq(q, Len(q) - k + 1, Len(q))

\* a supervisor step took a command off the channel
Dequeued == Len(cmd_rx') < Len(cmd_rx)

\* Reconnecting{1,1}, Reconnecting{2,2}, Reconnecting{3,4}, ... up to attempt k
ReconnectingRun(k) ==
    [ i \in 1..k |-> EvReconnecting(i, << 1, 2, 4, 8, 16 >>[i]) ]

InReconnect == pc \in { "backoff", "reestablish" }

C1_State ==
    /\ InReconnect =>
          /\ attempt \in 1..5
          /\ session = None
          /\ IsSome(last_connect_params)
          /\ Len(events) >= attempt
          /\ Suffix(events, attempt) = ReconnectingRun(attempt)
          /\ delay_secs = << 1, 2, 4, 8, 16 >>[attempt]
    /\ op = "reconnect_ok" =>
          /\ Len(events) >= attempt + 1
          /\ Suffix(events, attempt + 1) = ReconnectingRun(attempt) \o << EvConnected >>
          /\ session = Some(NewSession(Unwrap(last_connect_params)))
          /\ wire = << Unwrap(last_connect_params).token >>

C1_Step ==
    \* the reconnect loop is entered only by a read error of a session with saved params
    /\ (~InReconnect /\ InReconnect') =>
          /\ Connected /\ IsSome(last_connect_params)
          /\ pc' = "backoff" /\ attempt' = 1
    \* establish_session is called only after the announced sleep
    /\ (pc' = "reestablish" /\ pc # "reestablish") => (pc = "backoff" /\ events' = events)
    \* an attempt that succeeds emits Connected and ends the loop
    /\ (pc = "reestablish" /\ session' # None) =>
          /\ pc' = "select"
          /\ events' = Append(events, EvConnected)
    \* an attempt that fails is followed by the next one, in order
    /\ (pc = "reestablish" /\ pc' = "backoff") =>
          /\ attempt' = attempt + 1
          /\ events' = Append(events, EvReconnecting(attempt', delay_secs'))
    \* a Reconnecting event is pushed only on entering an attempt's sleep
    /\ (events' # events /\ Last(events').type = "Reconnecting") =>
          (pc' = "backoff" /\ pc # "backoff")
    /\ (pc = "backoff") => (pc' \in { "backoff", "reestablish" } /\ attempt' = attempt)

\* C1: after a QUIC read error in Connected mode with saved connect params the
\* supervisor makes reconnect attempts 1..5 in order; before attempt k it emits
\* Reconnecting{k, min(2^(k-1),30)} (delays 1,2,4,8,16), sleeps that long, then
\* calls establish_session with the saved params; the first success emits
\* Connected and no further Reconnecting follows (success on attempt 4 gives
\* Reconnecting{1,1},{2,2},{3,4},{4,8}, Connected).
C1_ReconnectBackoff == []C1_State /\ [][C1_Step]_vars

\* C1 witness: the reconnect loop succeeded on its fourth attempt
C1_Witness == op = "reconnect_ok" /\ attempt = 4

C2_State ==
    /\ attempt <= 5
    /\ InReconnect => IsSome(last_connect_params)
    /\ op = "reconnect_gave_up" =>
          /\ attempt = 5
          /\ Len(events) >= 6
          /\ Suffix(events, 6) = ReconnectingRun(5)
                \o << EvDisconnected("Reconnection failed after 5 attempts") >>
          /\ last_connect_params = None
          /\ session = None
          /\ pc = "select"

C2_Step ==
    \* giving up pushes exactly one event, after the fifth attempt and only then
    /\ (events' # events /\ Last(events') = EvDisconnected("Reconnection failed after 5 attempts")) =>
          /\ pc = "reestablish" /\ attempt = 5
          /\ events' = Append(events, Last(events'))
          /\ op' = "reconnect_gave_up"
    /\ (pc = "reestablish" /\ attempt = 5 /\ pc' # "reestablish") => pc' = "select"
    \* with no saved params and no session nothing but a successful Connect
    \* brings a session or saved params back, and no reconnect starts
    /\ (session = None /\ last_connect_params = None) =>
          /\ ~InReconnect'
          /\ (session' # None \/ last_connect_params' # None) => op' = "connect_ok"

\* C2: if all 5 reconnect attempts fail the supervisor emits exactly one
\* Disconnected("Reconnection failed after 5 attempts"), clears the saved connect
\* params, ends in Disconnected mode and makes no sixth attempt; nothing triggers
\* another reconnect until a new Connect succeeds.
C2_ReconnectGivesUp == []C2_State /\ [][C2_Step]_vars

\* C2 witness: the fifth attempt has just failed
C2_Witness == op = "reconnect_gave_up" /\ attempt = 5 /\ pc = "select"

C3_State ==
    /\ op = "connect_ok" =>
          /\ Last(events) = EvConnected
          /\ session = Some(NewSession(connecting))
          /\ last_connect_params = Some(connecting)
    /\ op = "connect_failed" =>
          /\ Last(events).type = "ConnectFailed"
          /\ session = None

C3_Step ==
    \* commands are taken off the channel only at the top of the loop
    /\ Dequeued => pc = "select"
    \* a Connect taken off the channel starts establish_session with its params
    /\ (Dequeued /\ Head(cmd_rx).type = "Connect") =>
          /\ pc' = "connecting"
          /\ connecting' = Head(cmd_rx).params
          /\ session' = None
          /\ events' = events
    \* until it returns nothing is emitted; when it returns exactly one of
    \* Connected and ConnectFailed is
    /\ (pc = "connecting") =>
          \/ pc' = "connecting" /\ events' = events /\ session' = session
          \/ /\ pc' = "select"
             /\ \/ /\ events' = Append(events, EvConnected)
                   /\ session' = Some(NewSession(connecting))
                   /\ last_connect_params' = Some(connecting)
                \/ /\ Len(events') = Len(events) + 1
                   /\ SubSeq(events', 1, Len(events)) = events
                   /\ Last(events').type = "ConnectFailed"
                   /\ session' = None

\* C3: every Connect command the supervisor processes, in Disconnected or
\* Connected mode, produces exactly one of Connected or ConnectFailed(reason)
\* before the next command is processed; after Connected a session exists and
\* the saved reconnect params are exactly the params of that Connect; after
\* ConnectFailed no session exists.
C3_ConnectOutcome == []C3_State /\ [][C3_Step]_vars

\* C3 witness: a Connect processed while Connected succeeded with other params
C3_Witness ==
    /\ op = "connect_ok"
    /\ Len(events) = 2 /\ events[1] = EvConnected
    /\ Len(wire) = 1 /\ wire[1] = << 116 >>

C4_State ==
    /\ \A r \in Resources : live[r] \in { 0, 1 }
    /\ session = None => live = NoneAlive
    /\ session # None =>
          /\ live = Acquire(NoneAlive, SessionResources(Unwrap(session)))
          /\ \A r \in { "connection", "capture_stream", "playback_stream", "opus_encoder" } :
                live[r] = 1
    \* while establish_session runs, and between reconnect attempts, the old
    \* session is gone and nothing of it is held
    /\ (pc \in { "connecting", "backoff", "reestablish" }) =>
          (session = None /\ live = NoneAlive)
    /\ op \in { "connect_failed", "reconnect_retry", "reconnect_gave_up" } =>
          (session = None /\ live = NoneAlive)

C5_DisconnectProcessed == Dequeued /\ Head(cmd_rx).type = "Disconnect"

\* C5 as stated: whenever the supervisor processes a Disconnect command,
\* afterwards there is no session and no saved connect params, and exactly one
\* Disconnected("user requested") event has been emitted for that command.
C5_AnyDisconnect ==
    [][ C5_DisconnectProcessed =>
          /\ session' = None
          /\ last_connect_params' = None
          /\ events' = Append(events, EvDisconnected("user requested")) ]_vars

\* C5: a Disconnect processed while Connected leaves no session and no saved
\* connect params and emits exactly one Disconnected("user requested"); a
\* Disconnect processed while Disconnected is ignored: no event is emitted and
\* the saved connect params, if any, stay as they were.
C5_DisconnectByMode ==
    [][ C5_DisconnectProcessed =>
          IF session # None
          THEN /\ session' = None
               /\ last_connect_params' = None
               /\ events' = Append(events, EvDisconnected("user requested"))
               /\ live' = NoneAlive
               /\ pc' = "select"
          ELSE /\ session' = None
               /\ last_connect_params' = last_connect_params
               /\ events' = events
               /\ pc' = "select" ]_vars

\* C5 witness: a Disconnect was processed in Connected mode
C5_Witness ==
    /\ op = "disconnect"
    /\ Last(events) = EvDisconnected("user requested")
    /\ session = None /\ last_connect_params = None

\* C6 as stated, at the backoff delay: once cancellation is raised the
\* supervisor waiting there starts no further reconnect attempt, establishes no
\* session and emits no further event; it exits.
C6_CancelStopsBackoff ==
    [][ (cancel /\ pc = "backoff") =>
          /\ pc' \in { "backoff", "exited" }
          /\ events' = events
          /\ session' = None ]_vars

C7_IsMediaOf(d, room_id, user_id) ==
    /\ Len(d) >= 22
    /\ LET f == InFrameDecode(d)
       IN  /\ IsSome(f)
           /\ Unwrap(f).header.media_type \in { 0, 1 }
           /\ Unwrap(f).header.room_id = room_id
           /\ Unwrap(f).header.user_id = user_id
           /\ SubSeq(d, 1, 22) = HeaderEncode(Unwrap(f).header)
           /\ Unwrap(f).payload = SubSeq(d, 23, Len(d))

C7_State ==
    /\ session # None =>
          /\ wire # << >>
          /\ wire[1] = Unwrap(last_connect_params).token
          /\ \A i \in 2..Len(wire) :
                C7_IsMediaOf(wire[i], Unwrap(session).room_id, Unwrap(session).user_id)
    /\ wire # << >> =>
          \E p \in ParamSet :
             /\ wire[1] = p.token
             /\ \A i \in 2..Len(wire) : C7_IsMediaOf(wire[i], p.room_id, p.user_id)

C7_Step ==
    wire' # wire =>
       \/ /\ pc = "connecting"
          /\ wire' \in { << >>, << connecting.token >> }
       \/ /\ pc = "reestablish"
          /\ wire' \in { << >>, << Unwrap(last_connect_params).token >> }
       \/ /\ pc = "select" /\ session # None /\ wire # << >>
          /\ Len(wire') > Len(wire)
          /\ SubSeq(wire', 1, Len(wire)) = wire

\* C7: on every newly established connection the first datagram sent is the raw
\* UTF-8 token bytes with no header, before any audio or video datagram of that
\* session; every later datagram of the session is a 22-byte header followed
\* by payload.
C7_TokenFirst == []C7_State /\ [][C7_Step]_vars

\* C7 witness: a session that has sent its token and then video fragments
C7_Witness ==
    /\ session # None
    /\ Len(wire) >= 3
    /\ wire[1] = << 101, 121 >>
    /\ Unwrap(InFrameDecode(wire[2])).header.media_type = 1
    /\ Len(wire[2]) = 22 + 1178

\* C8 as stated: the first byte of any outbound datagram equals the protocol
\* version (1), for every datagram the engine hands to the QUIC connection.
C8_EveryDatagramVersioned ==
    \A i \in 1..Len(wire) : Len(wire[i]) >= 1 /\ wire[i][1] = 1

\* C8: the first byte of every outbound media datagram, that is of every
\* datagram after the raw auth token that opens the connection, equals the
\* protocol version (1).
C8_MediaDatagramVersioned ==
    \A i \in 2..Len(wire) : Len(wire[i]) >= 1 /\ wire[i][1] = 1

\* C8 witness: an audio datagram followed a token whose first byte is not 1
C8_Witness ==
    /\ op = "pcm"
    /\ Len(wire) >= 2
    /\ wire[1][1] # 1
    /\ Unwrap(InFrameDecode(wire[2])).header.media_type = 0

C9_Frames == [ i \in 1..Len(vf_out) |-> Unwrap(InFrameDecode(vf_out[i])) ]

RECURSIVE C9_Concat(_)
C9_Concat(frames) ==
    IF frames = << >> THEN << >> ELSE frames[1].payload \o C9_Concat(Tail(frames))

C9_FragmentCount == (Max(vf_in.len, 1) + 1177) \div 1178

\* C9: for a frame payload P (possibly empty) send_video_fragmented emits
\* n = ceil(max(len(P),1)/1178) video datagrams, all with the given timestamp,
\* END_OF_FRAME on datagram i iff i = n-1, KEYFRAME iff the frame is a keyframe
\* and i = 0, sequence number start_seq + i mod 2^32, payloads concatenating in
\* order to P, and the caller's counter advanced by n when every send succeeds
\* (3600 bytes -> payloads 1178,1178,1178,66 and flags 0x80,0,0,0x40).
C9_Fragmentation ==
    LET n == C9_FragmentCount
        fr == C9_Frames
    IN  /\ vf_result = "idle" => (vf_out = << >> /\ vf_seq = vf_in.start_seq)
        /\ vf_result # "idle" =>
              /\ Len(fr) <= n
              /\ vf_seq = WrappingAdd(vf_in.start_seq, Len(fr))
              /\ \A i \in 1..Len(fr) :
                    /\ Len(vf_out[i]) = 22 + Len(fr[i].payload)
                    /\ fr[i].header.media_type = 1
                    /\ fr[i].header.timestamp = vf_in.timestamp
                    /\ IsEndOfFrame(fr[i].header) <=> (i = n)
                    /\ IsKeyframe(fr[i].header) <=> (vf_in.is_keyframe /\ i = 1)
                    /\ fr[i].header.flags \in { 0, 64, 128, 192 }
                    /\ fr[i].header.sequence = WrappingAdd(vf_in.start_seq, i - 1)
                    /\ Len(fr[i].payload) <= 1178
        /\ vf_result = "ok" =>
              /\ Len(fr) = n
              /\ C9_Concat(fr) = VideoData(vf_in.len)
              /\ vf_seq = WrappingAdd(vf_in.start_seq, n)
              /\ (vf_in.start_seq = << 65535, 65534 >> /\ n = 4) =>
                    [ i \in 1..4 |-> fr[i].header.sequence ]
                       = << << 65535, 65534 >>, << 65535, 65535 >>, << 0, 0 >>, << 0, 1 >> >>
              /\ (vf_in.len = 3600 /\ vf_in.is_keyframe) =>
                    /\ [ i \in 1..4 |-> Len(fr[i].payload) ] = << 1178, 1178, 1178, 66 >>
                    /\ [ i \in 1..4 |-> fr[i].header.flags ] = << 128, 0, 0, 64 >>
        /\ vf_result = "err" => Len(fr) < n

\* C9 witness: a 3600-byte keyframe was sent in four datagrams whose sequence
\* numbers wrap past 2^32
C9_Witness ==
    /\ vf_result = "ok"
    /\ vf_in.len = 3600 /\ vf_in.is_keyframe
    /\ vf_in.start_seq = << 65535, 65534 >>
    /\ Len(vf_out) = 4
    /\ vf_seq = << 0, 2 >>

\* C10 as stated: feeding all n fragments of one frame, each exactly once and
\* in any order, to add_fragment yields exactly one reassembled frame, whose
\* data is P and whose is_keyframe is true iff some fragment carried KEYFRAME;
\* the other n-1 calls return nothing and no fragment of that frame is left
\* pending.
C10_AnyOrderReassembles ==
    (vf_result = "ok" /\ ra_fed = 1..Len(vf_out)) =>
        LET got == { i \in 1..Len(ra_returned) : IsSome(ra_returned[i]) }
        IN  /\ Len(ra_returned) = Len(vf_out)
            /\ Cardinality(got) = 1
            /\ \A i \in got :
                  /\ Unwrap(ra_returned[i]).data = VideoData(vf_in.len)
                  /\ Unwrap(ra_returned[i]).is_keyframe = vf_in.is_keyframe
            /\ DOMAIN ra_pending = {}

\* C11 as stated: a video frame of which at least one fragment is lost is
\* discarded; the reassembler never releases it to the AV1 decoder.
C11_LossDiscardsFrame ==
    (vf_result = "ok" /\ ra_fed # 1..Len(vf_out)) =>
        \A i \in 1..Len(ra_returned) : ra_returned[i] = None

\* C12: for every MediaHeader h with spatial_id <= 15 and temporal_id <= 15,
\* parse(h.encode()) returns a header equal to h in all eleven fields, and
\* encode always yields exactly 22 bytes.
C12_HeaderRoundTrip ==
    /\ hdr_bytes # << >> =>
          /\ Len(hdr_bytes) = 22
          /\ \A i \in 1..Len(hdr_bytes) : hdr_bytes[i] \in 0..255
    /\ (hdr_out # << >> /\ hdr_in.spatial_id <= 15 /\ hdr_in.temporal_id <= 15) =>
          /\ IsSome(hdr_out[1])
          /\ Cardinality(DOMAIN Unwrap(hdr_out[1])) = 11
          /\ \A fld \in DOMAIN hdr_in : Unwrap(hdr_out[1])[fld] = hdr_in[fld]
          /\ Unwrap(hdr_out[1]) = hdr_in

\* C12 witness: a header with every field at the top of its range was encoded
\* and parsed back
C12_Witness ==
    /\ hdr_out # << >>
    /\ hdr_in.version = 255 /\ hdr_in.flags = 255 /\ hdr_in.room_id = << 65535, 65535 >>
    /\ hdr_in.spatial_id = 15 /\ hdr_in.temporal_id = 15 /\ hdr_in.dtx
    /\ hdr_bytes[21] = 255 /\ hdr_bytes[22] = 128

C19_Ids(q) == [ i \in 1..Len(q) |-> q[i].rgba[1] ]

\* C19: the host-visible video frame queue never holds more than 8 frames
\* under any interleaving of supervisor pushes and host polls; a push onto a
\* queue of 8 removes the oldest frame first, and frames are polled in the
\* order they were pushed (FIFO among the frames not dropped).
C19_QueueBoundedFifo ==
    LET held == C19_Ids(video_frames)
        seen == C19_Ids(vq_polled) \o held
    IN  /\ Len(video_frames) <= 8
        \* what is held is the newest frames, oldest first, without a gap
        /\ \A i \in 1..Len(held) : held[i] = vq_pushed - Len(held) + i
        \* what was polled, followed by what is held, is in push order
        /\ \A i \in 1..Len(seen) : \A j \in 1..Len(seen) : i < j => seen[i] < seen[j]
        /\ \A i \in 1..Len(seen) : seen[i] \in 1..vq_pushed
        \* a frame is missing only if a push onto a full queue removed it
        /\ (vq_pushed <= 8) => Len(seen) = vq_pushed

\* C19 witness: after frame 1 was polled, the tenth push onto a full queue
\* removed frame 2
C19_Witness ==
    /\ vq_pushed = 10
    /\ C19_Ids(vq_polled) = << 1 >>
    /\ C19_Ids(video_frames) = << 3, 4, 5, 6, 7, 8, 9, 10 >>

\* C20 as stated: on SetVideo(true) while video is off: if the camera fails to
\* start, VideoError is emitted and the video flag stays off with no camera or
\* encoder held; if the camera starts but the AV1 encoder fails to initialise,
\* the camera is stopped (receiver and stop handle dropped), VideoError is
\* emitted and the flag stays off; if both succeed, video_sequence and
\* video_timestamp are reset to 0 and the flag is set, with no VideoError.
C20_SetVideoOnOutcomes ==
    /\ op = "set_video_on_camera_failed" =>
          /\ events # << >> /\ Last(events).type = "VideoError"
          /\ ~Unwrap(session).video
          /\ ~Unwrap(session).camera_rx /\ ~Unwrap(session).camera_stop
          /\ ~Unwrap(session).video_encoder
    /\ op = "set_video_on_encoder_failed" =>
          /\ events # << >> /\ Last(events).type = "VideoError"
          /\ ~Unwrap(session).video
          /\ ~Unwrap(session).camera_rx /\ ~Unwrap(session).camera_stop
          /\ ~Unwrap(session).video_encoder
    /\ op = "set_video_on_ok" =>
          /\ Unwrap(session).video
          /\ Unwrap(session).video_sequence = << 0, 0 >>
          /\ Unwrap(session).video_timestamp = << 0, 0 >>
          /\ Last(events).type # "VideoError"

\* 960 * x mod 2^32
C15_Times960(x) ==
    << (x[1] * 960 + (x[2] * 960) \div 65536) % 65536, (x[2] * 960) % 65536 >>

\* the headers of the audio datagrams in a connection's log, in order
C15_AudioHeaders(w) ==
    SelectSeq([ i \in 1..(Len(w) - 1) |-> Unwrap(InFrameDecode(w[i + 1])).header ],
              LAMBDA h : h.media_type = 0)

C15_State ==
    session # None =>
       LET s == Unwrap(session)
           hs == C15_AudioHeaders(wire)
       IN  /\ s.timestamp = C15_Times960(s.sequence)
           /\ \A i \in 1..Len(hs) :
                 /\ hs[i].codec_id = 1
                 /\ (hs[i].flags \div 64) % 2 = 1
                 /\ hs[i].timestamp = C15_Times960(hs[i].sequence)
                 /\ hs[i].sequence # s.sequence /\ U32Leq(hs[i].sequence, s.sequence)
                 /\ i > 1 => (hs[i - 1].sequence # hs[i].sequence
                              /\ U32Leq(hs[i - 1].sequence, hs[i].sequence))

C15_Step ==
    \* a new session starts at sequence 0 and timestamp 0
    /\ (session = None /\ session' # None) =>
          /\ Unwrap(session').sequence = << 0, 0 >>
          /\ Unwrap(session').timestamp = << 0, 0 >>
    /\ (session # None /\ session' # None) =>
          LET s == Unwrap(session)
              t == Unwrap(session')
              sent == Len(C15_AudioHeaders(wire')) - Len(C15_AudioHeaders(wire))
          IN  \* the counters move together, one frame at a time
              /\ \/ t.sequence = s.sequence /\ t.timestamp = s.timestamp /\ sent = 0
                 \/ /\ t.sequence = WrappingAdd(s.sequence, 1)
                    /\ t.timestamp = WrappingAdd(s.timestamp, 960)
                    /\ sent \in { 0, 1 }
              \* the frame handed over carries the counters as they were
              /\ sent = 1 =>
                    LET h == Last(C15_AudioHeaders(wire'))
                    IN  h.sequence = s.sequence /\ h.timestamp = s.timestamp

\* C15: within one session every audio frame handed to the transport has
\* media type audio, codec opus and END_OF_FRAME set, and its sequence and
\* timestamp are exactly 1 and 960 greater (mod 2^32) than those of the
\* previous audio frame, starting at 0 and 0; hence in every reachable session
\* state timestamp = 960 * sequence mod 2^32.
C15_AudioFrameFields == []C15_State /\ [][C15_Step]_vars

\* C15 witness: two audio frames were handed over, the first went out with
\* (0, 0) and the second with (1, 960)
C15_Witness ==
    /\ op = "pcm"
    /\ Len(C15_AudioHeaders(wire)) = 2
    /\ C15_AudioHeaders(wire)[2].sequence = << 0, 1 >>
    /\ C15_AudioHeaders(wire)[2].timestamp = << 0, 960 >>
    /\ Unwrap(session).sequence = << 0, 2 >>
    /\ Unwrap(session).timestamp = << 0, 1920 >>

\* the headers of the datagrams of media type t in a log of media datagrams
C14_Headers(log, t) ==
    SelectSeq([ i \in 1..Len(log) |-> Unwrap(InFrameDecode(log[i])).header ],
              LAMBDA h : h.media_type = t)

\* strictly below, as unsigned 32-bit numbers
C14_Less(a, b) == a # b /\ U32Leq(a, b)

C14_Increasing(hs) ==
    \A i \in 1..(Len(hs) - 1) : C14_Less(hs[i].sequence, hs[i + 1].sequence)

\* C14 as stated: across any sequence of commands and events (SetVideo
\* off/on and automatic reconnects included) each outbound audio datagram
\* carries a sequence greater than the previous outbound audio datagram's,
\* and likewise for video datagrams.
C14_MonotonicAcrossSessions ==
    /\ C14_Increasing(C14_Headers(out_log, 0))
    /\ C14_Increasing(C14_Headers(out_log, 1))

\* the media datagrams handed to the current connection (the token precedes them)
C14_SessionLog == IF wire = << >> THEN << >> ELSE Tail(wire)

C14_State ==
    session # None =>
       /\ C14_Increasing(C14_Headers(C14_SessionLog, 0))
       /\ \A i \in 1..Len(C14_Headers(C14_SessionLog, 0)) :
             C14_Less(C14_Headers(C14_SessionLog, 0)[i].sequence, Unwrap(session).sequence)

C14_Step ==
    \* a new session starts both counters at 0
    /\ (session' # None /\ op' \in { "connect_ok", "reconnect_ok" }) =>
          /\ Unwrap(session').sequence = << 0, 0 >>
          /\ Unwrap(session').video_sequence = << 0, 0 >>
    /\ (session # None /\ session' # None /\ op' \notin { "connect_ok", "reconnect_ok" }) =>
          LET s == Unwrap(session)
              t == Unwrap(session')
              new == SubSeq(out_log', Len(out_log) + 1, Len(out_log'))
              vs == C14_Headers(new, 1)
          IN  \* the audio counter never goes back within the session
              /\ U32Leq(s.sequence, t.sequence)
              \* the video counter goes back only when SetVideo(true) starts video
              /\ IF op' = "set_video_on_ok"
                 THEN t.video_sequence = << 0, 0 >>
                 ELSE U32Leq(s.video_sequence, t.video_sequence)
              \* the datagrams of one camera frame carry increasing sequences
              \* between the counter before and the counter after the frame
              /\ C14_Increasing(vs)
              /\ \A i \in 1..Len(vs) :
                    /\ U32Leq(s.video_sequence, vs[i].sequence)
                    /\ C14_Less(vs[i].sequence, t.video_sequence)

\* C14 (amended): within one session each outbound audio datagram carries a
\* sequence greater than the previous audio datagram of that session, and the
\* audio counter starts at 0 in every new session (Connect or automatic
\* reconnect); the video counter starts at 0 in every new session and again
\* whenever SetVideo(true) turns video on, never goes back otherwise, and the
\* datagrams of each camera frame carry increasing sequences from the counter
\* on.
C14_MonotonicWithinSession == []C14_State /\ [][C14_Step]_vars

\* C14 witness: video was switched off and on again within one session, and
\* the first datagram after that carries sequence 0 like the first before it
C14_Witness ==
    /\ op = "camera"
    /\ Len(C14_Headers(C14_SessionLog, 1)) >= 2
    /\ C14_Headers(C14_SessionLog, 1)[1].sequence = << 0, 0 >>
    /\ Last(C14_Headers(C14_SessionLog, 1)).sequence = << 0, 0 >>

\* every entry of a map after the step was there before, unchanged
C13_NothingNew(before, after) ==
    /\ DOMAIN after \subseteq DOMAIN before
    /\ \A k \in DOMAIN after : after[k] = before[k]

\* the datagram is too short for a header, or of a media type other than audio and video
C13_Rejected(data) == Len(data) < 22 \/ data[2] \notin { 0, 1 }

\* C13: an inbound datagram shorter than 22 bytes, or whose media type is
\* neither audio (0) nor video (1), is discarded silently: handling it touches
\* no decoder, no speaking state, no reassembly entry, sends nothing to the
\* playback channel, pushes no video frame and emits no event.
C13_SilentDiscard ==
    [][ (op' = "datagram" /\ C13_Rejected(Unwrap(rx_last'))) =>
           LET s == Unwrap(session)
               t == Unwrap(session')
           IN  /\ C13_NothingNew(s.audio_decoders, t.audio_decoders)
               /\ C13_NothingNew(s.video_decoders, t.video_decoders)
               /\ C13_NothingNew(s.video_reassembler, t.video_reassembler)
               /\ t.speaking_states = s.speaking_states
               /\ t.playback = s.playback
               /\ video_frames' = video_frames
               /\ events' = events
               /\ [ t EXCEPT !.audio_decoders = << >>, !.video_decoders = << >>,
                             !.video_reassembler = << >> ]
                  = [ s EXCEPT !.audio_decoders = << >>, !.video_decoders = << >>,
                               !.video_reassembler = << >> ] ]_vars

\* C13 witness: a session that holds a decoder and a partial picture and has
\* played one buffer has just been handed a datagram of media type 2
C13_Witness ==
    /\ op = "datagram" /\ session # None
    /\ Len(Unwrap(rx_last)) >= 22 /\ Unwrap(rx_last)[2] = 2
    /\ DOMAIN Unwrap(session).audio_decoders # {}
    /\ DOMAIN Unwrap(session).video_reassembler # {}
    /\ Len(Unwrap(session).playback) = 1

\* the SpeakingStart and SpeakingStop events of user u in a list of events
C16_SpeakingEvents(evs, u) ==
    SelectSeq(evs, LAMBDA e : e.type \in { "SpeakingStart", "SpeakingStop" } /\ e.user_id = u)

\* the session carries on through the step, with the mute flag set before it
C16_MutedStep ==
    /\ session # None /\ Unwrap(session).muted
    /\ session' # None /\ op' \notin { "connect_ok", "reconnect_ok" }

C16_Step ==
    C16_MutedStep =>
       LET s == Unwrap(session)
           t == Unwrap(session')
           new == SubSeq(events', Len(events) + 1, Len(events'))
       IN  \* no audio datagram is sent and the audio counters stand still
           /\ C14_Headers(SubSeq(out_log', Len(out_log) + 1, Len(out_log')), 0) = << >>
           /\ t.sequence = s.sequence /\ t.timestamp = s.timestamp
           \* a captured frame stops a speaking local user, once
           /\ C16_SpeakingEvents(new, s.user_id) =
                 IF op' = "pcm" /\ IsSpeaking(s.speaking_states, s.user_id)
                 THEN << EvSpeakingStop(s.user_id) >> ELSE << >>
           /\ ~t.muted => op' = "set_mute"
           /\ t.muted /\ op' # "set_mute" =>
                 (IsSpeaking(t.speaking_states, s.user_id)
                     <=> (IsSpeaking(s.speaking_states, s.user_id) /\ op' # "pcm"))

C18_Idle(dec) == now - dec.last_used

\* C18 as stated: while Connected, a user from whom no inbound frame has been
\* processed for more than 10 s has no audio decoder and no video decoder in
\* the per-user maps.
C18_IdleUserHasNoDecoder ==
    Connected =>
       /\ \A u \in DOMAIN Unwrap(session).audio_decoders :
             C18_Idle(Unwrap(session).audio_decoders[u]) <= 10
       /\ \A u \in DOMAIN Unwrap(session).video_decoders :
             C18_Idle(Unwrap(session).video_decoders[u]) <= 10

\* at the end of a loop iteration no decoder has been idle for 10 s or more
C18_State ==
    (Connected /\ op # "tick") =>
       /\ \A u \in DOMAIN Unwrap(session).audio_decoders :
             C18_Idle(Unwrap(session).audio_decoders[u]) < 10
       /\ \A u \in DOMAIN Unwrap(session).video_decoders :
             C18_Idle(Unwrap(session).video_decoders[u]) < 10

\* one map of decoders across a loop iteration of a session that carries on
C18_MapStep(before, after, media_type) ==
    \* a decoder used within the last 10 s stays, and stays the same decoder
    /\ \A u \in DOMAIN before :
          C18_Idle(before[u]) < 10 => (u \in DOMAIN after /\ after[u].born = before[u].born)
    \* a decoder is never replaced in place: a frame that arrives before the
    \* cleanup has run finds the old decoder and uses it
    /\ \A u \in DOMAIN before \cap DOMAIN after : after[u].born = before[u].born
    \* a decoder that appears is fresh, made for the sender of the frame just handled
    /\ \A u \in DOMAIN after \ DOMAIN before :
          /\ after[u] = [ born |-> now, last_used |-> now ]
          /\ op' = "datagram"
          /\ Unwrap(InFrameDecode(Unwrap(rx_last'))).header.media_type = media_type
          /\ Unwrap(InFrameDecode(Unwrap(rx_last'))).header.user_id = u

C18_Step ==
    \* the passing of time alone removes nothing
    /\ op' = "tick" => session' = session
    /\ (session # None /\ session' # None
          /\ op' \notin { "tick", "connect_ok", "reconnect_ok" }) =>
          /\ C18_MapStep(Unwrap(session).audio_decoders, Unwrap(session').audio_decoders, 0)
          /\ C18_MapStep(Unwrap(session).video_decoders, Unwrap(session').video_decoders, 1)

\* C18 (amended): while Connected, whenever the supervisor has finished a loop
\* iteration no decoder in the per-user maps has been idle for 10 s or more;
\* between iterations time alone removes nothing, so a decoder idle for longer
\* stays until the next iteration and a frame of its user that starts that
\* iteration reuses it; an audio frame (or completed video frame) of a user
\* without a decoder creates a fresh one, and a decoder used within the last
\* 10 s is never evicted.
C18_EvictionAtCleanup == []C18_State /\ [][C18_Step]_vars

\* C18 witness: user 2 was heard at 0 s, the decoder was evicted by the cleanup
\* of a later iteration, and the frame handled at 12 s created a fresh one
C18_Witness ==
    /\ Connected /\ op = "datagram" /\ now = 12
    /\ Unwrap(session).playback = << U32Of(2), U32Of(2) >>
    /\ U32Of(2) \in DOMAIN Unwrap(session).audio_decoders
    /\ Unwrap(session).audio_decoders[U32Of(2)] = [ born |-> 12, last_used |-> 12 ]

\* the lines of user u among the first n lines of the log
C17_Of(u, n) == SelectSeq(SubSeq(sp_log, 1, n), LAMBDA l : l.user = u)

\* the SpeakingStart and SpeakingStop lines of user u among the first n lines
C17_Events(u, n) ==
    SelectSeq(C17_Of(u, n), LAMBDA l : l.kind \in { "SpeakingStart", "SpeakingStop" })

\* user u is marked speaking after the first n lines
C17_Marked(u, n) ==
    C17_Events(u, n) # << >> /\ Last(C17_Events(u, n)).kind = "SpeakingStart"

\* the above-threshold buffers of user u among the first n lines
C17_Above(u, n) == SelectSeq(C17_Of(u, n), LAMBDA l : l.kind = "above")

\* line i is a SpeakingStop that comes 200 ms or more after the user's last
\* above-threshold buffer
C17_HeldOff(i) ==
    /\ C17_Above(sp_log[i].user, i) # << >>
    /\ sp_log[i].t - Last(C17_Above(sp_log[i].user, i)).t >= 200

\* SpeakingStart and SpeakingStop of one user alternate, SpeakingStart first
C17_Alternate(u) ==
    \A k \in 1..Len(C17_Events(u, Len(sp_log))) :
       C17_Events(u, Len(sp_log))[k].kind
          = IF k % 2 = 1 THEN "SpeakingStart" ELSE "SpeakingStop"

\* C17 as stated: for the local user and for every remote sender alike, a
\* burst above the threshold gives exactly one SpeakingStart, and the
\* SpeakingStop that follows comes exactly once and no earlier than 200 ms
\* after the last above-threshold buffer.
C17_Hysteresis ==
    /\ \A u \in { SpLocal, SpRemote } : C17_Alternate(u)
    /\ \A i \in 1..Len(sp_log) : sp_log[i].kind = "SpeakingStop" => C17_HeldOff(i)

\* what one buffer must add to the log, told from the log alone
C17_Expected(line, n) ==
    IF line.kind = "above"
    THEN IF C17_Marked(line.user, n) THEN << >> ELSE << "SpeakingStart" >>
    ELSE IF line.kind = "below"
    THEN IF /\ C17_Marked(line.user, n)
            /\ line.t - Last(C17_Above(line.user, n)).t >= 200
         THEN << "SpeakingStop" >> ELSE << >>
    ELSE IF line.kind = "muted"
    THEN IF C17_Marked(line.user, n) THEN << "SpeakingStop" >> ELSE << >>
    ELSE << >>

C17_State ==
    /\ \A u \in { SpLocal, SpRemote } : C17_Alternate(u)
    /\ \A i \in 1..Len(sp_log) :
          sp_log[i].kind = "SpeakingStop" =>
             \/ C17_HeldOff(i)
             \/ sp_log[i - 1] = SpLine(sp_log[i].t, SpLocal, "muted")

C17_Step ==
    sp_log' # sp_log =>
       LET n == Len(sp_log)
           line == sp_log'[n + 1]
       IN  /\ line.kind \in { "above", "below", "empty", "muted" }
           /\ SubSeq(sp_log', n + 2, Len(sp_log'))
                 = SpLines(line.t, line.user, C17_Expected(line, n))

\* C17 (amended): for the local user while unmuted and for every remote sender
\* alike, SpeakingStart(user) is emitted once, at the first above-threshold
\* buffer handled while the user is not marked speaking, and SpeakingStop(user)
\* once, at the first below-threshold buffer handled 200 ms or more after the
\* user's last above-threshold buffer; the only earlier SpeakingStop is the one
\* for the local user that a captured buffer emits while the mute flag is set.
C17_HysteresisUnlessMuted == []C17_State /\ [][C17_Step]_vars

\* C17 witness: speech, a below-threshold buffer 20 ms later that changes
\* nothing, and one 200 ms after the speech that emits the SpeakingStop
C17_Witness ==
    /\ Len(sp_log) = 5
    /\ sp_log[1].kind = "above" /\ sp_log[2].kind = "SpeakingStart"
    /\ sp_log[3].kind = "below" /\ sp_log[3].t = sp_log[1].t + 20
    /\ sp_log[4].kind = "below" /\ sp_log[4].t = sp_log[1].t + 200
    /\ sp_log[5] = SpLine(sp_log[4].t, SpRemote, "SpeakingStop")

C21_State ==
    session # None =>
       LET s == Unwrap(session)
       IN  /\ s.video <=> (s.video_encoder /\ s.camera_rx /\ s.camera_stop)
           /\ ~s.video => (~s.video_encoder /\ ~s.camera_rx /\ ~s.camera_stop)

\* the supervisor has taken a SetVideo command off the channel in this step
C21_Handled ==
    cmd_rx # << >> /\ Head(cmd_rx).type = "SetVideo" /\ cmd_rx' = Tail(cmd_rx)

C21_Step ==
    /\ (C21_Handled /\ op' = "set_video_off") =>
          LET t == Unwrap(session')
          IN  ~t.video /\ ~t.video_encoder /\ ~t.camera_rx /\ ~t.camera_stop
    /\ (C21_Handled /\ op' = "set_video_same") =>
          /\ session' = session /\ events' = events /\ live' = live
          /\ video_frames' = video_frames /\ wire' = wire

\* C21: in every reachable session state the video flag is true iff the AV1
\* encoder, the camera receive channel and the camera stop handle are all
\* present, and all three are absent when it is false; SetVideo(false) drops
\* all three and clears the flag, and SetVideo(x) when the flag already equals
\* x changes no state and emits no event.
C21_VideoFlagMatchesResources == []C21_State /\ [][C21_Step]_vars

\* C21 witness: video was on and SetVideo(false) has just been handled
C21_Witness ==
    /\ op = "set_video_off" /\ session # None
    /\ ~Unwrap(session).video /\ live["av1_encoder"] = 0 /\ live["camera_rx"] = 0

\* C22 as stated: user_id 0 in the host-visible video frame queue is reserved
\* for local preview: every queued frame with user_id 0 was produced by the
\* local camera, and no frame decoded from an inbound datagram is ever queued
\* with user_id 0.
C22_ZeroIsLocalPreview ==
    \A i \in 1..Len(video_frames) :
       /\ video_frames[i].user_id = U32Of(0) => video_frames[i].origin = "camera"
       /\ video_frames[i].origin = "decoder" => video_frames[i].user_id # U32Of(0)

\* the header of the datagram handled in this step, if it has one
C23_Header == Unwrap(InFrameDecode(Unwrap(rx_last'))).header

\* a datagram with a header was handled while the deafen flag was set
C23_DeafStep ==
    /\ op' = "datagram" /\ n_in' = n_in + 1 /\ cmd_rx' = cmd_rx
    /\ Unwrap(session).deafened
    /\ InFrameDecode(Unwrap(rx_last')) # None

C23_Step ==
    /\ (C23_DeafStep /\ C23_Header.media_type = 0) =>
          LET s == Unwrap(session)
              t == Unwrap(session')
          IN  /\ t.playback = s.playback
              /\ C13_NothingNew(s.audio_decoders, t.audio_decoders)
              /\ t.speaking_states = s.speaking_states
              /\ events' = events
    /\ (C23_DeafStep /\ C23_Header.media_type = 1) =>
          LET s == Unwrap(session)
              t == Unwrap(session')
              u == C23_Header.user_id
          IN  \* the fragment reached the reassembler: a picture it completes
              \* reaches the sender's decoder, any other fragment is kept
              IF IsEndOfFrame(C23_Header)
              THEN /\ u \in DOMAIN t.video_decoders
                   /\ t.video_decoders[u].last_used = now
              ELSE /\ ReassemblyKey(C23_Header) \in DOMAIN t.video_reassembler
                   /\ t.video_reassembler[ReassemblyKey(C23_Header)].last_activity = now

\* C23: while the session's deafen flag is set every inbound audio datagram
\* is dropped: nothing is sent to the playback channel, no audio decoder is
\* created or touched and no speaking state is updated for the sender;
\* inbound video datagrams are still processed.
C23_DeafDropsAudio == [][C23_Step]_vars

\* C23 witness: user 2 was heard, the session was deafened, and a further
\* audio datagram of user 2 has just been dropped
C23_Witness ==
    /\ op = "datagram" /\ session # None /\ Unwrap(session).deafened
    /\ Unwrap(rx_last) = RemoteAudio(U32Of(2))
    /\ Unwrap(session).playback = << U32Of(2) >>
    /\ U32Of(2) \in DOMAIN Unwrap(session).audio_decoders

\* a call of the given name has just returned
MlsCalled(name) == mls_ops' = mls_ops + 1 /\ mls_ret'.op = name

\* C24 as stated: import_state is all-or-nothing: when it fails at any step
\* (deserialize, open, backup copy, migrations, table creation, or a restored
\* database holding no identity or an undecodable one) the engine's database
\* contents, its storage handle and its in-memory credential and signature
\* keys are exactly what they were before the call.
C24_Step ==
    (MlsCalled("import_state") /\ ~mls_ret'.ok)
        => /\ stores'[mls_ret'.by] = stores[mls_ret'.by]
           /\ engines'[mls_ret'.by] = engines[mls_ret'.by]
C24_ImportAllOrNothing == [][C24_Step]_vars

\* C25 as stated: create_group called with a non-empty member list in which
\* some key package fails validation returns an error and leaves the store
\* unchanged: the group id does not exist afterwards unless it did before, so
\* a later create_group with the same id finds the store as it was.
C25_Step ==
    (/\ MlsCalled("create_group")
     /\ mls_ret' = Raised("create_group", mls_ret'.by, "RuntimeError", "Invalid key package"))
        => /\ stores'[mls_ret'.by] = stores[mls_ret'.by]
           /\ \A g \in GroupIds :
                  GroupExists(stores'[mls_ret'.by], g) = GroupExists(stores[mls_ret'.by], g)
C25_FailedCreateLeavesStore == [][C25_Step]_vars

\* C26: MLS round trip. After alice created a group with bob's key package and
\* bob joined from the welcome she got, join_group returned the id alice
\* created the group under, and every application message one of them
\* encrypted and the other processes, in the order they were encrypted, comes
\* out as Application(plaintext) with the very bytes that were encrypted, in
\* both directions.
C26_Joined ==
    (MlsCalled("join_group") /\ mls_ret'.ok)
        => /\ Unwrap(mls_ret'.value) \in GroupIds
           /\ GroupExists(stores'["alice"], Unwrap(mls_ret'.value))
           /\ GroupExists(stores'[mls_ret'.by], Unwrap(mls_ret'.value))
C26_Processed ==
    (MlsCalled("process_message") /\ Head(inbox[mls_ret'.by]).plaintext # None)
        => /\ mls_ret'.ok
           /\ mls_ret'.value =
                  Some(ProcessedResult("application", Head(inbox[mls_ret'.by]).plaintext))
C26_RoundTrip == [][C26_Joined /\ C26_Processed]_vars

\* C26 witness: bob has processed two messages of alice, the second being "hi"
C26_Witness ==
    /\ mls_ret = Returned("process_message", "bob", TRUE,
                          Some(ProcessedResult("application", Some(<< 104, 105 >>))))
    /\ \E g \in stores["bob"].groups : Cardinality(g.consumed) = 2

\* C27 as stated: generate_identity fails whenever an identity already exists,
\* be it generated, imported by import_identity, restored by import_state or
\* loaded from the store at construction, and then changes nothing; the store
\* never holds more than one identity record (vox_identity is the one row).
C27_Step ==
    (/\ MlsCalled("generate_identity")
     /\ \/ Unwrap(engines[mls_ret'.by]).signature_keys # None
        \/ stores[mls_ret'.by].vox_identity # None)
        => /\ ~mls_ret'.ok
           /\ stores'[mls_ret'.by] = stores[mls_ret'.by]
           /\ engines'[mls_ret'.by] = engines[mls_ret'.by]
C27_GenerateIdentityOnce == [][C27_Step]_vars

\* the view another member m of group g has of it
C28_Peer(g, m) == [ g EXCEPT !.own = m, !.generation = 0, !.consumed = {} ]

\* engine state db can encrypt to and decrypt from group g: what it encrypts
\* opens for every other member, and what another member encrypts opens for it
C28_CanUse(db, g) ==
    /\ GroupLoad(db, g.group_id) = Some(g)
    /\ \A p \in Plaintexts, m \in g.members \ { g.own } :
          /\ GroupEncrypt(db, g, p).ok
          /\ GroupProcessMessage(db, C28_Peer(g, m), GroupEncrypt(db, g, p).bytes).result
                 = ProcessedResult("application", Some(p))
          /\ GroupProcessMessage(db, g,
                 TlsSerialize(MlsMessage("application", C28_Peer(g, m), p))).result
                 = ProcessedResult("application", Some(p))

\* C28 as stated: MLS persistence. After export_state() on an engine A and a
\* successful import_state() of those bytes into an engine B, list_groups() on
\* B returns what it returned on A, identity_key() of B is the one of A, and B
\* can encrypt to and decrypt from every group A was a member of.
C28_Step ==
    (MlsCalled("import_state") /\ mls_ret'.ok)
        => \A x \in exports :
               (x.kind = "state" /\ Some(x.data) = mls_ret'.value)
                   => /\ ListGroups(stores'[mls_ret'.by]) = x.list_groups
                      /\ IdentityKey(Unwrap(engines'[mls_ret'.by])) = x.identity_key
                      /\ \A g \in x.groups : C28_CanUse(stores'[mls_ret'.by], g)
C28_Persistence == [][C28_Step]_vars

\* C29: the signature key pair at rest. A key pair saved with no key
\* configured is stored as it is and loads back identical whether or not a key
\* is configured; a key pair saved with key K is stored in the enc:v1: form
\* and loads back identical with key K, while load_identity with no key or
\* with another key returns an error and no value.
C29_Stored ==
    pv_saved # None =>
        LET saved == Unwrap(pv_saved)
            row == Unwrap(pv_db.vox_identity)
        IN  /\ pv_db.vox_identity # None
            /\ saved.encryption_key = None
                   => row.signature_key_pair = saved.signature_key_pair
            /\ saved.encryption_key # None
                   => /\ row.signature_key_pair[1] = ENC_PREFIX
                      /\ row.signature_key_pair # saved.signature_key_pair
C29_Loaded ==
    (pv_saved # None /\ pv_ret # None) =>
        LET saved == Unwrap(pv_saved)
            loaded == Unwrap(pv_ret)
            identical == /\ loaded.ok /\ loaded.value # None
                         /\ Unwrap(loaded.value).signature_key_pair = saved.signature_key_pair
        IN  IF saved.encryption_key = None \/ saved.encryption_key = pv.encryption_key
            THEN identical
            ELSE ~loaded.ok
C30_Group(db) == Unwrap(GroupLoad(db, CHOOSE id \in GroupIds : GroupExists(db, id)))

\* C30: create_group with an empty member list creates the group (alone, at
\* epoch 0) and returns no welcome and no commit; with a list of valid key
\* packages it returns both a welcome and a commit; create_group and
\* add_member merge their pending commit before returning: the stored group
\* has no pending commit, is one epoch further than the group the members were
\* added to, and the members of its epoch, which the welcome carries, include
\* the new ones.
C30_Created ==
    (MlsCalled("create_group") /\ mls_ret'.ok)
        => LET g == C30_Group(stores'[mls_ret'.by])
               out == Unwrap(mls_ret'.value)
           IN  /\ \E id \in GroupIds : GroupExists(stores'[mls_ret'.by], id)
               /\ g.pending_commit = None
               /\ IF g.members = { g.own }
                  THEN out.welcome = None /\ out.commit = None /\ g.epoch = 0
                  ELSE /\ out.welcome # None /\ out.commit # None /\ g.epoch = 1
                       /\ Unwrap(out.welcome)[2].content.members = g.members
                       /\ Unwrap(out.welcome)[2].epoch = g.epoch
                       /\ Unwrap(out.commit)[2].content.members = g.members
C30_Added ==
    (MlsCalled("add_member") /\ mls_ret'.ok)
        => LET before == C30_Group(stores[mls_ret'.by])
               g == C30_Group(stores'[mls_ret'.by])
               out == Unwrap(mls_ret'.value)
           IN  /\ g.pending_commit = None
               /\ g.epoch = before.epoch + 1
               /\ before.members \subseteq g.members /\ g.members # before.members
               /\ out.welcome # None /\ out.commit # None
               /\ Unwrap(out.welcome)[2].content.members = g.members
               /\ Unwrap(out.welcome)[2].epoch = g.epoch
C30_CommitMerged == [][C30_Created /\ C30_Added]_vars

\* C30 witness: create_group with bob's key package has returned a welcome and
\* a commit, and alice's group holds the two of them
C30_Witness ==
    /\ mls_ret.op = "create_group" /\ mls_ret.ok
    /\ Unwrap(mls_ret.value).welcome # None
    /\ Cardinality(C30_Group(stores["alice"]).members) = 2

\* the message a call of process_message or decrypt was handed in this step,
\* what process_message makes of it, and the caller's group
C31_Entry == Head(inbox[mls_ret'.by])
C31_Would == ProcessMessage(stores[mls_ret'.by], C31_Entry.group_id, C31_Entry.bytes)
C31_Group(db) == Unwrap(GroupLoad(db, C31_Entry.group_id))

\* decrypt returns the plaintext exactly when process_message on the same
\* input yields Application(plaintext), and fails otherwise
C31_Wrapper ==
    MlsCalled("decrypt") =>
        IF C31_Would.ok /\ C31_Would.result.kind = "application"
        THEN mls_ret'.ok /\ mls_ret'.value = C31_Would.result.data
        ELSE ~mls_ret'.ok

\* process_message merges the commit it is handed and stores the proposal
C31_Merges ==
    (MlsCalled("process_message") /\ mls_ret'.ok) =>
        LET before == C31_Group(stores[mls_ret'.by])
            after == C31_Group(stores'[mls_ret'.by])
            m == TlsDeserialize(C31_Entry.bytes, "MlsMessage").value
        IN  /\ Unwrap(mls_ret'.value).kind = m.wire
            /\ m.wire = "commit" =>
                  /\ after.epoch = before.epoch + 1
                  /\ after.members = m.content.members
                  /\ after.secret = m.content.secret
            /\ m.wire = "proposal" =>
                  /\ after.epoch = before.epoch
                  /\ after.proposals = before.proposals \cup { m.content }

\* the group of the caller is at the epoch and holds the proposals it had
C31_Unchanged ==
    /\ C31_Group(stores'[mls_ret'.by]).epoch = C31_Group(stores[mls_ret'.by]).epoch
    /\ C31_Group(stores'[mls_ret'.by]).proposals
           = C31_Group(stores[mls_ret'.by]).proposals

\* C31 as stated: decrypt returns the plaintext exactly when process_message
\* on the same input would yield Application(plaintext) and fails otherwise;
\* process_message merges a staged commit when the message is a commit and
\* stores the proposal as pending when it is a proposal; and a decrypt call
\* that fails leaves the group's epoch and pending proposals unchanged.
C31_FailedDecryptChangesNothing ==
    [][/\ C31_Wrapper /\ C31_Merges
       /\ (MlsCalled("decrypt") /\ ~mls_ret'.ok) => C31_Unchanged]_vars

\* C31 (amended): decrypt returns the plaintext exactly when process_message
\* on the same input would yield Application(plaintext) and fails otherwise;
\* process_message merges a staged commit when the message is a commit and
\* stores the proposal as pending when it is a proposal; a decrypt call that
\* fails because process_message failed leaves the group's epoch and pending
\* proposals unchanged, and one that fails because the message is not an
\* application message leaves the group as process_message leaves it: the
\* commit merged, the proposal stored.
C31_FailedDecrypt ==
    (MlsCalled("decrypt") /\ ~mls_ret'.ok) =>
        IF C31_Would.ok
        THEN /\ mls_ret' = Raised("decrypt", mls_ret'.by, "ValueError",
                                  "Message is not an application message")
             /\ C31_Would.result.kind \in { "commit", "proposal" }
             /\ stores'[mls_ret'.by] = C31_Would.db
        ELSE /\ Unwrap(mls_ret'.value).exception = "RuntimeError"
             /\ C31_Unchanged
C31_DecryptWrapsProcessMessage ==
    [][C31_Wrapper /\ C31_Merges /\ C31_FailedDecrypt]_vars

\* C31 witness: bob handed alice's commit adding carol to decrypt, which
\* raised, and bob's group is at the epoch of the three of them
C31_Witness ==
    /\ mls_ret = Raised("decrypt", "bob", "ValueError",
                        "Message is not an application message")
    /\ \E g \in stores["bob"].groups : g.epoch = 2 /\ Cardinality(g.members) = 3

\* a worker captured a frame in this step: the worker, and the frame
C32_Captured == \E w \in 1..Len(cam_captured) : cam_captured'[w] = cam_captured[w] + 1
C32_Worker == CHOOSE w \in 1..Len(cam_captured) : cam_captured'[w] = cam_captured[w] + 1
C32_Frame == [ worker |-> C32_Worker, n |-> cam_captured'[C32_Worker] ]

\* the frames that reached or will reach the supervisor, in order
C32_Delivered == cam_received \o cam_chan

C32_Step ==
    (Len(cam_captured') = Len(cam_captured) /\ C32_Captured /\ ReceiverHeld(C32_Worker))
        => /\ cam_workers'[C32_Worker].pc = "loop"
           /\ IF Len(cam_chan) = CAMERA_CHANNEL_CAP
              THEN /\ cam_chan' = cam_chan
                   /\ cam_dropped' = Append(cam_dropped,
                          [ frame |-> C32_Frame, result |-> "Full", queued |-> cam_chan ])
              ELSE /\ cam_chan' = Append(cam_chan, C32_Frame)
                   /\ cam_dropped' = cam_dropped

C32_State ==
    /\ Len(cam_chan) <= CAMERA_CHANNEL_CAP
    /\ \A i, j \in 1..Len(C32_Delivered) :
          i < j => \/ C32_Delivered[i].worker < C32_Delivered[j].worker
                   \/ /\ C32_Delivered[i].worker = C32_Delivered[j].worker
                      /\ C32_Delivered[i].n < C32_Delivered[j].n
    /\ \A w \in 1..Len(cam_workers) :
          ReceiverHeld(w) =>
             \A n \in 1..cam_captured[w] :
                \/ \E i \in 1..Len(C32_Delivered) :
                       C32_Delivered[i] = [ worker |-> w, n |-> n ]
                \/ \E i \in 1..Len(cam_dropped) :
                       /\ cam_dropped[i].frame = [ worker |-> w, n |-> n ]
                       /\ cam_dropped[i].result = "Full"
                       /\ Len(cam_dropped[i].queued) = CAMERA_CHANNEL_CAP
                       /\ \A k \in 1..CAMERA_CHANNEL_CAP :
                              cam_dropped[i].queued[k].n < n

C33_Callback == pb_calls' = pb_calls + 1 /\ pb_rx' = << >>

\* everything the callback had to play, oldest first: the buffer, then the
\* waiting frames; the cap; and the number of slots it was asked to fill
C33_All == DrainFrames(pb_buf, pb_rx, pb_channels)
C33_Cap == MaxBuf(TARGET_RATE, pb_channels)
C33_Excess == IF RunLen(C33_All) > C33_Cap THEN RunLen(C33_All) - C33_Cap ELSE 0
C33_Slots == RunLen(pb_out')
C33_Played ==
    IF C33_Slots < RunLen(C33_All) - C33_Excess THEN C33_Slots
    ELSE RunLen(C33_All) - C33_Excess

C33_Step ==
    C33_Callback =>
        /\ RunLen(pb_buf') <= C33_Cap
        /\ TakeFront(pb_out', C33_Played)
              = TakeFront(DrainFront(C33_All, C33_Excess), C33_Played)
        /\ pb_buf' = DrainFront(C33_All, C33_Excess + C33_Played)
        /\ DrainFront(pb_out', C33_Played)
              = IF C33_Slots > C33_Played
                THEN << [ v |-> Silence, n |-> C33_Slots - C33_Played ] >>
                ELSE << >>
        /\ C33_Slots > C33_Played => pb_buf' = << >>

\* C33: after every playback device callback the playback FIFO holds at most
\* 2 seconds of device samples (device_rate * channels * 2); when an append
\* exceeds the cap the excess is removed from the front (the oldest
\* samples), what is left is played in FIFO order, and every output slot for
\* which the FIFO is empty is written as 0.0.
C33_PlaybackFifoCapped ==
    [](pb_channels > 0 => RunLen(pb_buf) <= MaxBuf(TARGET_RATE, pb_channels))
        /\ [][C33_Step]_vars

\* C33 witness: on a one-channel device 120000 samples had piled up, the
\* callback dropped the oldest 24000 and played the 512 after them
C33_Witness ==
    /\ pb_channels = 1
    /\ pb_out = << [ v |-> F32Of(-7), n |-> 512 ] >>
    /\ RunLen(pb_buf) = MaxBuf(TARGET_RATE, 1) - 512

\* ---- C34 ----
\* the fragment carried by datagram i of vf_out
C34_Fragment(i) == Unwrap(InFrameDecode(vf_out[i]))

\* the datagrams whose fragment evict_stale has removed
C34_Evicted ==
    { i \in 1..Len(vf_out) :
        << ReassemblyKey(C34_Fragment(i).header), C34_Fragment(i).header.sequence,
           C34_Fragment(i).payload >> \in ra_evicted }

\* the frame data a completed entry holding the fragments of datagrams S gives
C34_DataOf(S) ==
    LET idx == SelectSeq([ i \in 1..Len(vf_out) |-> i ], LAMBDA i : i \in S)
    IN  FlatPayloads(SortBySeq([ j \in 1..Len(idx) |->
            << C34_Fragment(idx[j]).header.sequence, C34_Fragment(idx[j]).payload >> ]))

\* no pending entry has seen END_OF_FRAME, and every frame returned so far is
\* made of fragments that were never evicted
C34_State ==
    /\ \A k \in DOMAIN ra_pending : ~ra_pending[k].received_end
    /\ \A j \in 1..Len(ra_returned) :
          IsSome(ra_returned[j]) =>
              \E S \in SUBSET (ra_fed \ C34_Evicted) :
                  Unwrap(ra_returned[j]).data = C34_DataOf(S)

\* one add_fragment call: a fragment with END_OF_FRAME makes the call return
\* the entry of its key and remove it; any other fragment returns nothing
\* and stays pending
C34_AddStep ==
    \A i \in 1..Len(vf_out) :
        (i \notin ra_fed /\ ra_fed' = ra_fed \cup { i }) =>
            LET h == C34_Fragment(i).header
                ret == ra_returned'[Len(ra_returned')]
            IN  /\ Len(ra_returned') = Len(ra_returned) + 1
                /\ IF IsEndOfFrame(h)
                   THEN /\ IsSome(ret)
                        /\ << Unwrap(ret).user_id, Unwrap(ret).timestamp >> = ReassemblyKey(h)
                        /\ ReassemblyKey(h) \notin DOMAIN ra_pending'
                   ELSE /\ ret = None
                        /\ ReassemblyKey(h) \in DOMAIN ra_pending'

\* one evict_stale(2 s) call that changes the map: the entries it removes are
\* exactly those whose last fragment arrived at least 2 s ago, the others
\* are kept as they were, and nothing is returned
C34_EvictStep ==
    (ra_fed' = ra_fed /\ ra_pending' # ra_pending) =>
        /\ DOMAIN ra_pending' =
              { k \in DOMAIN ra_pending : ~(now - ra_pending[k].last_activity >= 2) }
        /\ \A k \in DOMAIN ra_pending' : ra_pending'[k] = ra_pending[k]
        /\ ra_returned' = ra_returned

C35_State ==
    IsSome(session) =>
        /\ IsSome(last_connect_params)
        /\ Unwrap(last_connect_params).room_id = Unwrap(session).room_id
        /\ Unwrap(last_connect_params).user_id = Unwrap(session).user_id

\* the Err arm of read_datagram was taken in this step
C35_ReadError == Connected /\ n_in' = n_in + 1 /\ session' = None /\ op' = "quic_error"

\* the arm goes on to reconnect_with_backoff and never pushes Disconnected
C35_Step ==
    C35_ReadError =>
        /\ pc' = "backoff"
        /\ events' = PushEvent(events, EvReconnecting(1, BackoffDelay(1)))

\* C35: whenever a session exists, saved connect params exist and their
\* room_id and user_id equal the session's; consequently the branch of the
\* QUIC read error that emits Disconnected(error_string) because no params
\* are saved is unreachable.
C35_SessionHasSavedParams == []C35_State /\ [][C35_Step]_vars

\* a session that an automatic reconnect established from the saved params of
\* the second user
C35_Witness ==
    /\ op = "reconnect_ok"
    /\ IsSome(session) /\ Unwrap(session).user_id = U32Of(2)
    /\ \E i \in 1..Len(events) : events[i].type = "Reconnecting"

\* ---- C36 ----
\* the events that tell of the connection
C36_ModeEvents == { "Connected", "Disconnected", "ConnectFailed", "Reconnecting" }

\* the most recent of them is Connected
C36_LastIsConnected ==
    LET at == { i \in 1..Len(events) : events[i].type \in C36_ModeEvents }
    IN  at # {} /\ events[CHOOSE i \in at : \A j \in at : j <= i].type = "Connected"

\* at the top of the loop the mode is what the events tell
C36_Agree == pc = "select" => (Connected <=> C36_LastIsConnected)

\* C36 as stated: whenever the supervisor is waiting at the top of its loop
\* for the next input, it is in Connected mode iff the most recent event
\* among Connected, Disconnected, ConnectFailed and Reconnecting is Connected.
C36_ModeFromEvents == C36_Agree

\* C36 within one run of the runtime: the events tell the mode when the first
\* loop starts, and every step of a loop that has not returned keeps it so;
\* only start() after a stop() made in Connected mode, which pushes no event,
\* leaves a loop waiting in Disconnected mode behind a last event Connected.
C36_ModeFromEventsWithinRun ==
    /\ C36_Agree
    /\ [][(pc # "exited" /\ C36_Agree) => C36_Agree']_vars

\* the loop waits in Disconnected mode behind a last event ConnectFailed,
\* after it had been connected and had gone through an automatic reconnect
C36_Witness ==
    /\ pc = "select" /\ session = None
    /\ events # << >> /\ events[Len(events)].type = "ConnectFailed"
    /\ \E i \in 1..Len(events) : events[i].type = "Reconnecting"
    /\ \E i \in 1..Len(events) : events[i].type = "Connected"

\* ---- C37 ----
C37_Users == { U32Of(1), U32Of(2), U32Of(3) }

\* the SpeakingStart and SpeakingStop events of user u in evs, in order
C37_Speaking(evs, u) ==
    SelectSeq(evs, LAMBDA e : e.type \in { "SpeakingStart", "SpeakingStop" } /\ e.user_id = u)

\* they alternate, beginning with SpeakingStart
C37_Alternates(sq) ==
    \A i \in 1..Len(sq) : sq[i].type = IF i % 2 = 1 THEN "SpeakingStart" ELSE "SpeakingStop"

\* the events pushed during the session that the Connected event at position
\* a announced: up to the next Connected event
C37_Session(a) ==
    LET later == { b \in (a + 1)..Len(events) : events[b].type = "Connected" }
        b == IF later = {} THEN Len(events) + 1
             ELSE CHOOSE x \in later : \A y \in later : x <= y
    IN  SubSeq(events, a + 1, b - 1)

\* C37 as stated: in the event stream seen by the host, for each user id the
\* SpeakingStart and SpeakingStop events strictly alternate beginning with
\* SpeakingStart, across any sequence of commands and events including mute,
\* deafen, Disconnect, Connect and automatic reconnect.
C37_SpeakingAlternates == \A u \in C37_Users : C37_Alternates(C37_Speaking(events, u))

\* C37 within one session: for each user id the SpeakingStart and SpeakingStop
\* events pushed between one Connected event and the next strictly alternate
\* beginning with SpeakingStart, across mute and deafen.
C37_SpeakingAlternatesInSession ==
    \A a \in 1..Len(events) :
        events[a].type = "Connected" =>
            \A u \in C37_Users : C37_Alternates(C37_Speaking(C37_Session(a), u))

\* the local user was speaking when a Connect replaced the session, and the
\* new session announced the same user speaking again
C37_Witness ==
    /\ \E i, j, k \in 1..Len(events) :
          /\ i < j /\ j < k
          /\ events[i] = EvSpeakingStart(U32Of(1))
          /\ events[j].type = "Connected"
          /\ events[k] = EvSpeakingStart(U32Of(1))
          /\ \A m \in i..k : events[m] # EvSpeakingStop(U32Of(1))

\* ---- C38 ----
\* every queued command has been processed and a session exists
C38_Settled == pc = "select" /\ cmd_rx = << >> /\ IsSome(session)

\* is_muted = true implies the mute flag of the session
C38_State == (C38_Settled /\ IsMuted) => Unwrap(session).muted

\* the capture arm handled one frame in this step
C38_Captured == Connected /\ n_in' = n_in + 1 /\ cmd_rx' = cmd_rx /\ op' = "pcm"

\* while is_muted = true it put no datagram on the connection
C38_Step == (C38_Settled /\ IsMuted /\ C38_Captured) => wire' = wire

\* C38: the is_muted getter of the host agrees with the engine: once all
\* queued commands have been processed and a session exists, is_muted = true
\* implies that the session's mute flag is set and that no audio datagram is
\* sent, also when set_mute(true) was called before connect and after an
\* automatic reconnect or a new Connect replaced the session.
C38_IsMutedAgrees == []C38_State /\ [][C38_Step]_vars

\* ---- C39 ----
\* C39: at most one camera worker thread is running (holding camera index 0)
\* at any time: a worker started by a later SetVideo(true) never runs
\* concurrently with the previous one, whose stop handle was dropped.
C39_AtMostOneWorker == Cardinality(RunningWorkers) <= 1

\* ---- C40 ----
\* C40: list_groups() returns exactly the ids of the groups this engine
\* manages: after a successful create_group(g) or a join_group returning g,
\* g is in list_groups() and group_exists(g) is true, and list_groups()
\* contains no id for which group_exists is false.
C40_ListGroupsExact ==
    \A e \in Engines :
        engines[e] # None =>
            \A id \in GroupIds \cup ListGroups(stores[e]) :
                id \in ListGroups(stores[e]) <=> GroupExists(stores[e], id)

====
